---- MODULE Spec2Model ----
(***************************************************************************)
(* kenotex editing engine: the grapheme-indexed TextBuffer                 *)
(* (src/src/molecules/editor/buffer.rs), its bounded undo/redo history and *)
(* the VisualMode selection operations that act on it                      *)
(* (src/src/molecules/editor/visual_mode.rs).                              *)
(*                                                                         *)
(* A line is a sequence of graphemes, a text (Rust String handed in or     *)
(* out) is a sequence of characters that may hold "\n" and "\r".  Rows and *)
(* columns are 0-based as in the source; TLA+ sequences are 1-based, so    *)
(* row r of the document is lines[r + 1].                                  *)
(* A Rust panic (index out of bounds, slice start after end) aborts the    *)
(* program: the operation leaves the buffer as it was and sets panicked.   *)
(***************************************************************************)
EXTENDS Integers, Sequences, FiniteSets, TLC

VARIABLES buffer, op, ret, content, cycles, undos, taken, vim, args, leader_keys, app

vars == <<buffer, op, ret, content, cycles, undos, taken, vim, args, leader_keys, app>>

----------------------------------------------------------------------------
(* Bounds of the model *)

MaxLines == 2
MaxLen == 1
MaxHist == 1
MaxStr == 4
MaxCycles == 52
MaxLeaderKeys == 3
MaxDoc == 4
MaxWrap == 4
MaxWidth == 4
MaxBlock == 4
MaxEvents == 4
MaxFrame == 3
MaxItem == 9
MaxSteps == 4
MaxChannel == 2

(* Program constants *)

MAX_UNDO_LEVELS == 50

Graphemes == {"a", " "}
TabWidths == {1, 2}

----------------------------------------------------------------------------
(* Sequence helpers: Rust slices and Vec operations *)

Min(a, b) == IF a <= b THEN a ELSE b
Max(a, b) == IF a >= b THEN a ELSE b
SatSub(a, b) == IF a >= b THEN a - b ELSE 0

Take(s, n) == SubSeq(s, 1, n)
Drop(s, n) == SubSeq(s, n + 1, Len(s))
Slice(s, a, b) == SubSeq(s, a + 1, b)
VecInsert(s, i, x) == Take(s, i) \o <<x>> \o Drop(s, i)
VecRemove(s, i) == Take(s, i) \o Drop(s, i + 1)
Repeat(x, n) == [i \in 1..n |-> x]

RECURSIVE Concat(_)
Concat(ss) == IF ss = <<>> THEN <<>> ELSE Head(ss) \o Concat(Tail(ss))

RECURSIVE join(_)
join(ls) ==
    IF ls = <<>> THEN <<>>
    ELSE IF Len(ls) = 1 THEN ls[1]
    ELSE ls[1] \o <<"\n">> \o join(Tail(ls))

FirstNewline(s) ==
    IF \E i \in 1..Len(s) : s[i] = "\n"
    THEN CHOOSE i \in 1..Len(s) : s[i] = "\n" /\ \A j \in 1..(i - 1) : s[j] # "\n"
    ELSE 0

RECURSIVE split_inclusive(_)
split_inclusive(s) ==
    IF s = <<>> THEN <<>>
    ELSE LET i == FirstNewline(s)
         IN  IF i = 0 THEN <<s>>
             ELSE <<Take(s, i)>> \o split_inclusive(Drop(s, i))

strip_line_ending(p) ==
    IF p # <<>> /\ p[Len(p)] = "\n"
    THEN LET q == Take(p, Len(p) - 1)
         IN  IF q # <<>> /\ q[Len(q)] = "\r" THEN Take(q, Len(q) - 1) ELSE q
    ELSE p

str_lines(s) ==
    LET pieces == split_inclusive(s)
    IN  [i \in 1..Len(pieces) |-> strip_line_ending(pieces[i])]

RECURSIVE str_split(_)
str_split(s) ==
    LET i == FirstNewline(s)
    IN  IF i = 0 THEN <<s>>
        ELSE <<Take(s, i - 1)>> \o str_split(Drop(s, i))

is_whitespace(g) == g = " "

----------------------------------------------------------------------------
(* TextBuffer: construction and serialisation *)

Panic(b) == [b EXCEPT !.panicked = TRUE]

new ==
    [lines |-> << <<>> >>, cursor_row |-> 0, cursor_col |-> 0,
     undo_stack |-> <<>>, redo_stack |-> <<>>, panicked |-> FALSE]

from_string_SplitsOnNewline(s) ==
    [lines |-> str_split(s),
     cursor_row |-> 0, cursor_col |-> 0,
     undo_stack |-> <<>>, redo_stack |-> <<>>, panicked |-> FALSE]

from_string(s) ==
    [lines |-> IF s = <<>> THEN << <<>> >> ELSE str_lines(s),
     cursor_row |-> 0, cursor_col |-> 0,
     undo_stack |-> <<>>, redo_stack |-> <<>>, panicked |-> FALSE]

to_string_TrailingNewline(b) == join(b.lines) \o <<"\n">>

to_string(b) == join(b.lines)

line_count(b) == Len(b.lines)

current_line_len(b) ==
    IF b.cursor_row < Len(b.lines) THEN Len(b.lines[b.cursor_row + 1]) ELSE 0

current_line(b) ==
    IF b.cursor_row < Len(b.lines) THEN b.lines[b.cursor_row + 1] ELSE <<>>

set_cursor(b, row, col) ==
    LET r == Min(row, SatSub(Len(b.lines), 1))
        b1 == [b EXCEPT !.cursor_row = r]
    IN  [b1 EXCEPT !.cursor_col = Min(col, current_line_len(b1))]

----------------------------------------------------------------------------
(* TextBuffer: character operations *)

insert_newline(b) ==
    IF b.cursor_row >= Len(b.lines) THEN Panic(b)
    ELSE LET line == b.lines[b.cursor_row + 1]
             split_pos == Min(b.cursor_col, Len(line))
             before == Take(line, split_pos)
             after == Drop(line, split_pos)
         IN  [b EXCEPT !.lines = VecInsert([b.lines EXCEPT ![b.cursor_row + 1] = before],
                                           b.cursor_row + 1, after),
                       !.cursor_row = b.cursor_row + 1,
                       !.cursor_col = 0]

insert_char(b, c) ==
    IF c = "\n" THEN insert_newline(b)
    ELSE LET ls == IF b.cursor_row >= Len(b.lines) THEN Append(b.lines, <<>>) ELSE b.lines
         IN  IF b.cursor_row >= Len(ls) THEN Panic(b)
             ELSE LET line == ls[b.cursor_row + 1]
                      insert_pos == Min(b.cursor_col, Len(line))
                      new_line == Take(line, insert_pos) \o <<c>> \o Drop(line, insert_pos)
                  IN  [b EXCEPT !.lines = [ls EXCEPT ![b.cursor_row + 1] = new_line],
                                !.cursor_col = b.cursor_col + 1]

RECURSIVE insert_text(_, _)
insert_text(b, text) ==
    IF text = <<>> \/ b.panicked THEN b
    ELSE LET c == Head(text)
             b1 == IF c = "\n" THEN insert_newline(b)
                   ELSE IF c # "\r" THEN insert_char(b, c)
                   ELSE b
         IN  insert_text(b1, Tail(text))

LeadingSpaces(line) ==
    IF \E i \in 1..Len(line) : line[i] # " "
    THEN (CHOOSE i \in 1..Len(line) : line[i] # " " /\ \A j \in 1..(i - 1) : line[j] = " ") - 1
    ELSE Len(line)

indent_line(b, tab_width) ==
    IF b.cursor_row >= Len(b.lines) THEN Panic(b)
    ELSE [b EXCEPT !.lines[b.cursor_row + 1] = Repeat(" ", tab_width) \o @,
                   !.cursor_col = @ + tab_width]

dedent_line(b, tab_width) ==
    IF b.cursor_row >= Len(b.lines) THEN Panic(b)
    ELSE LET remove == Min(LeadingSpaces(b.lines[b.cursor_row + 1]), tab_width)
         IN  IF remove > 0
             THEN [b EXCEPT !.lines[b.cursor_row + 1] = Drop(@, remove),
                            !.cursor_col = SatSub(@, remove)]
             ELSE b

IndentRows(b, start_row, end_row) ==
    {r \in 0..(Len(b.lines) - 1) :
        start_row <= r /\ r <= Min(end_row, SatSub(Len(b.lines), 1))}

indent_lines(b, start_row, end_row, tab_width) ==
    LET rows == IndentRows(b, start_row, end_row)
    IN  [b EXCEPT !.lines = [i \in 1..Len(b.lines) |->
                                IF (i - 1) \in rows
                                THEN Repeat(" ", tab_width) \o b.lines[i]
                                ELSE b.lines[i]],
                  !.cursor_col = @ + tab_width]

dedent_lines(b, start_row, end_row, tab_width) ==
    LET rows == IndentRows(b, start_row, end_row)
        ls == [i \in 1..Len(b.lines) |->
                  IF (i - 1) \in rows
                  THEN Drop(b.lines[i], Min(LeadingSpaces(b.lines[i]), tab_width))
                  ELSE b.lines[i]]
    IN  IF b.cursor_row >= Len(ls) THEN Panic(b)
        ELSE [b EXCEPT !.lines = ls,
                       !.cursor_col = Min(@, Len(ls[b.cursor_row + 1]))]

backspace(b) ==
    IF b.cursor_col > 0
    THEN IF b.cursor_row >= Len(b.lines) THEN Panic(b)
         ELSE LET line == b.lines[b.cursor_row + 1]
              IN  IF b.cursor_col <= Len(line)
                  THEN [b EXCEPT !.lines[b.cursor_row + 1] =
                                     Take(line, b.cursor_col - 1) \o Drop(line, b.cursor_col),
                                 !.cursor_col = @ - 1]
                  ELSE b
    ELSE IF b.cursor_row > 0
    THEN IF b.cursor_row >= Len(b.lines) THEN Panic(b)
         ELSE LET current == b.lines[b.cursor_row + 1]
                  ls == VecRemove(b.lines, b.cursor_row)
                  row == b.cursor_row - 1
              IN  [b EXCEPT !.lines = [ls EXCEPT ![row + 1] = @ \o current],
                            !.cursor_row = row,
                            !.cursor_col = Len(ls[row + 1])]
    ELSE b

delete_char(b) ==
    IF b.cursor_col < current_line_len(b)
    THEN LET line == b.lines[b.cursor_row + 1]
         IN  [b EXCEPT !.lines[b.cursor_row + 1] =
                           Take(line, b.cursor_col) \o Drop(line, b.cursor_col + 1)]
    ELSE IF Len(b.lines) = 0 THEN Panic(b)
    ELSE IF b.cursor_row < Len(b.lines) - 1
    THEN LET next_line == b.lines[b.cursor_row + 2]
             ls == VecRemove(b.lines, b.cursor_row + 1)
         IN  [b EXCEPT !.lines = [ls EXCEPT ![b.cursor_row + 1] = @ \o next_line]]
    ELSE b

----------------------------------------------------------------------------
(* TextBuffer: motions *)

move_left(b) == IF b.cursor_col > 0 THEN [b EXCEPT !.cursor_col = @ - 1] ELSE b

move_right(b) ==
    IF b.cursor_col < current_line_len(b) THEN [b EXCEPT !.cursor_col = @ + 1] ELSE b

move_up(b) ==
    IF b.cursor_row > 0
    THEN LET b1 == [b EXCEPT !.cursor_row = @ - 1]
         IN  [b1 EXCEPT !.cursor_col = Min(@, current_line_len(b1))]
    ELSE b

move_down(b) ==
    IF Len(b.lines) = 0 THEN Panic(b)
    ELSE IF b.cursor_row < Len(b.lines) - 1
    THEN LET b1 == [b EXCEPT !.cursor_row = @ + 1]
         IN  [b1 EXCEPT !.cursor_col = Min(@, current_line_len(b1))]
    ELSE b

move_to_line_start(b) == [b EXCEPT !.cursor_col = 0]

move_to_line_end(b) == [b EXCEPT !.cursor_col = current_line_len(b)]

move_to_first_line(b) == [b EXCEPT !.cursor_row = 0, !.cursor_col = 0]

move_to_last_line(b) ==
    [b EXCEPT !.cursor_row = SatSub(Len(b.lines), 1), !.cursor_col = 0]

RECURSIVE SkipWhile(_, _, _)
SkipWhile(g, pos, ws) ==
    IF pos < Len(g) /\ (is_whitespace(g[pos + 1]) = ws)
    THEN SkipWhile(g, pos + 1, ws)
    ELSE pos

move_word_forward(b) ==
    LET g == current_line(b)
        p0 == b.cursor_col
        p1 == IF p0 < Len(g) /\ ~is_whitespace(g[p0 + 1]) THEN SkipWhile(g, p0, FALSE) ELSE p0
        pos == SkipWhile(g, p1, TRUE)
    IN  IF Len(b.lines) = 0 THEN Panic(b)
        ELSE IF pos >= Len(g) /\ b.cursor_row < Len(b.lines) - 1
        THEN [b EXCEPT !.cursor_row = @ + 1, !.cursor_col = 0]
        ELSE [b EXCEPT !.cursor_col = pos]

RECURSIVE BackOverSpace(_, _)
BackOverSpace(g, pos) ==
    IF pos > 0 /\ is_whitespace(g[pos + 1]) THEN BackOverSpace(g, pos - 1) ELSE pos

RECURSIVE BackOverWord(_, _)
BackOverWord(g, pos) ==
    IF pos > 0 /\ ~is_whitespace(g[pos]) THEN BackOverWord(g, pos - 1) ELSE pos

move_word_backward(b) ==
    IF b.cursor_col = 0 /\ b.cursor_row > 0
    THEN LET b1 == [b EXCEPT !.cursor_row = @ - 1]
         IN  [b1 EXCEPT !.cursor_col = current_line_len(b1)]
    ELSE LET g == current_line(b)
             p0 == SatSub(b.cursor_col, 1)
         IN  IF p0 > 0 /\ p0 >= Len(g) THEN Panic(b)
             ELSE [b EXCEPT !.cursor_col = BackOverWord(g, BackOverSpace(g, p0))]

----------------------------------------------------------------------------
(* TextBuffer: line operations *)

delete_line_RemovesLast(b) ==
    IF Len(b.lines) > 1
    THEN IF b.cursor_row >= Len(b.lines) THEN Panic(b)
         ELSE LET ls == VecRemove(b.lines, b.cursor_row)
              IN  [b EXCEPT !.lines = ls,
                            !.cursor_row = IF @ >= Len(ls) THEN Len(ls) - 1 ELSE @,
                            !.cursor_col = 0]
    ELSE [b EXCEPT !.lines = <<>>, !.cursor_col = 0]

delete_line(b) ==
    IF Len(b.lines) > 1
    THEN IF b.cursor_row >= Len(b.lines) THEN Panic(b)
         ELSE LET ls == VecRemove(b.lines, b.cursor_row)
              IN  [b EXCEPT !.lines = ls,
                            !.cursor_row = IF @ >= Len(ls) THEN Len(ls) - 1 ELSE @,
                            !.cursor_col = 0]
    ELSE IF Len(b.lines) = 0 THEN Panic(b)
    ELSE [b EXCEPT !.lines[1] = <<>>, !.cursor_col = 0]

insert_line_below(b) ==
    IF b.cursor_row + 1 > Len(b.lines) THEN Panic(b)
    ELSE [b EXCEPT !.lines = VecInsert(@, b.cursor_row + 1, <<>>),
                   !.cursor_row = @ + 1,
                   !.cursor_col = 0]

insert_line_above(b) ==
    IF b.cursor_row > Len(b.lines) THEN Panic(b)
    ELSE [b EXCEPT !.lines = VecInsert(@, b.cursor_row, <<>>),
                   !.cursor_col = 0]

delete_line_and_return(b) ==
    IF b.cursor_row >= Len(b.lines) THEN [buffer |-> Panic(b), ret |-> <<>>]
    ELSE [buffer |-> delete_line(b), ret |-> b.lines[b.cursor_row + 1] \o <<"\n">>]

extract_line(b) ==
    IF b.cursor_row >= Len(b.lines) THEN [buffer |-> Panic(b), ret |-> <<>>]
    ELSE [buffer |-> b, ret |-> b.lines[b.cursor_row + 1] \o <<"\n">>]

----------------------------------------------------------------------------
(* TextBuffer: range operations *)

RangePanics(b, start_row, start_col, end_row, end_col) ==
    IF start_row = end_row
    THEN \/ start_row >= Len(b.lines)
         \/ Min(start_col, Len(b.lines[start_row + 1]))
               > Min(end_col, Len(b.lines[start_row + 1]))
    ELSE start_row >= Len(b.lines) \/ end_row >= Len(b.lines)

RangeText(b, start_row, start_col, end_row, end_col) ==
    IF start_row = end_row
    THEN LET g == b.lines[start_row + 1]
         IN  Slice(g, Min(start_col, Len(g)), Min(end_col, Len(g)))
    ELSE LET fg == b.lines[start_row + 1]
             lg == b.lines[end_row + 1]
             sc == Min(start_col, Len(fg))
             ec == Min(end_col, Len(lg))
             mid == [i \in 1..SatSub(end_row, start_row + 1) |->
                        b.lines[start_row + 1 + i] \o <<"\n">>]
         IN  Drop(fg, sc) \o <<"\n">> \o Concat(mid) \o Take(lg, ec)

delete_range(b, start_row, start_col, end_row, end_col) ==
    IF RangePanics(b, start_row, start_col, end_row, end_col)
    THEN [buffer |-> Panic(b), ret |-> <<>>]
    ELSE IF start_row = end_row
    THEN LET g == b.lines[start_row + 1]
             sc == Min(start_col, Len(g))
             ec == Min(end_col, Len(g))
         IN  [buffer |-> [b EXCEPT !.lines[start_row + 1] = Take(g, sc) \o Drop(g, ec)],
              ret |-> Slice(g, sc, ec)]
    ELSE LET fg == b.lines[start_row + 1]
             lg == b.lines[end_row + 1]
             sc == Min(start_col, Len(fg))
             ec == Min(end_col, Len(lg))
             mid == [i \in 1..SatSub(end_row, start_row + 1) |->
                        b.lines[start_row + 1 + i] \o <<"\n">>]
             deleted == Drop(fg, sc) \o <<"\n">> \o Concat(mid) \o Take(lg, ec)
             merged == Take(fg, sc) \o Drop(lg, ec)
             kept == IF end_row > start_row
                     THEN Take(b.lines, start_row + 1) \o Drop(b.lines, end_row + 1)
                     ELSE b.lines
         IN  [buffer |-> [b EXCEPT !.lines = [kept EXCEPT ![start_row + 1] = merged]],
              ret |-> deleted]

extract_range_InclusiveEnd(b, start_row, start_col, end_row, end_col) ==
    IF RangePanics(b, start_row, start_col, end_row, end_col)
    THEN [buffer |-> Panic(b), ret |-> <<>>]
    ELSE [buffer |-> b, ret |-> RangeText(b, start_row, start_col, end_row, end_col + 1)]

extract_range(b, start_row, start_col, end_row, end_col) ==
    IF RangePanics(b, start_row, start_col, end_row, end_col)
    THEN [buffer |-> Panic(b), ret |-> <<>>]
    ELSE [buffer |-> b, ret |-> RangeText(b, start_row, start_col, end_row, end_col)]

Motions == {"WordForward", "WordBackward", "LineEnd", "LineStart", "FileEnd", "FileStart", "Line"}

position_after_motion_Stays(b, motion) ==
    [row |-> b.cursor_row, col |-> b.cursor_col, panicked |-> FALSE]

position_after_motion(b, motion) ==
    LET clone == [b EXCEPT !.undo_stack = <<>>, !.redo_stack = <<>>]
        moved == CASE motion = "WordForward" -> move_word_forward(clone)
                   [] motion = "WordBackward" -> move_word_backward(clone)
                   [] motion = "LineEnd" -> move_to_line_end(clone)
                   [] motion = "LineStart" -> move_to_line_start(clone)
                   [] motion = "FileEnd" -> move_to_last_line(clone)
                   [] motion = "FileStart" -> move_to_first_line(clone)
                   [] OTHER -> clone
    IN  [row |-> moved.cursor_row, col |-> moved.cursor_col, panicked |-> moved.panicked]

PosLeq(r1, c1, r2, c2) == r1 < r2 \/ (r1 = r2 /\ c1 <= c2)

(* Both return [buffer, ret], ret being the pair <<text, is_linewise>>. *)
apply_motion_delete(b, motion) ==
    IF motion = "Line"
    THEN LET d == delete_line_and_return(b)
         IN  [buffer |-> d.buffer, ret |-> <<d.ret, TRUE>>]
    ELSE LET e == position_after_motion(b, motion)
             fwd == PosLeq(b.cursor_row, b.cursor_col, e.row, e.col)
             sr == IF fwd THEN b.cursor_row ELSE e.row
             sc == IF fwd THEN b.cursor_col ELSE e.col
             er == IF fwd THEN e.row ELSE b.cursor_row
             ec == IF fwd THEN e.col ELSE b.cursor_col
             d == delete_range(b, sr, sc, er, ec)
         IN  IF e.panicked THEN [buffer |-> Panic(b), ret |-> <<<<>>, FALSE>>]
             ELSE IF d.buffer.panicked THEN [buffer |-> d.buffer, ret |-> <<<<>>, FALSE>>]
             ELSE [buffer |-> [d.buffer EXCEPT !.cursor_row = sr, !.cursor_col = sc],
                   ret |-> <<d.ret, FALSE>>]

apply_motion_yank(b, motion) ==
    IF motion = "Line"
    THEN LET x == extract_line(b)
         IN  [buffer |-> x.buffer, ret |-> <<x.ret, TRUE>>]
    ELSE LET e == position_after_motion(b, motion)
             fwd == PosLeq(b.cursor_row, b.cursor_col, e.row, e.col)
             sr == IF fwd THEN b.cursor_row ELSE e.row
             sc == IF fwd THEN b.cursor_col ELSE e.col
             er == IF fwd THEN e.row ELSE b.cursor_row
             ec == IF fwd THEN e.col ELSE b.cursor_col
             x == extract_range(b, sr, sc, er, ec)
         IN  IF e.panicked THEN [buffer |-> Panic(b), ret |-> <<<<>>, FALSE>>]
             ELSE [buffer |-> x.buffer, ret |-> <<x.ret, FALSE>>]

----------------------------------------------------------------------------
(* TextBuffer: paste operations *)

paste_charwise(b, text, insert_pos0) ==
    IF b.cursor_row >= Len(b.lines) THEN Panic(b)
    ELSE LET g == b.lines[b.cursor_row + 1]
             insert_pos == Min(insert_pos0, Len(g))
             before == Take(g, insert_pos)
             after == Drop(g, insert_pos)
         IN  IF FirstNewline(text) = 0
             THEN [b EXCEPT !.lines[b.cursor_row + 1] = before \o text \o after,
                            !.cursor_col = insert_pos + SatSub(Len(text), 1)]
             ELSE LET pasted == str_split(text)
                      last_idx == Len(pasted) - 1
                      last_pasted == pasted[last_idx + 1]
                      middle == SubSeq(pasted, 2, last_idx)
                  IN  [b EXCEPT !.lines = Take(b.lines, b.cursor_row)
                                            \o << before \o pasted[1] >>
                                            \o middle
                                            \o << last_pasted \o after >>
                                            \o Drop(b.lines, b.cursor_row + 1),
                                !.cursor_row = @ + last_idx,
                                !.cursor_col = SatSub(Len(last_pasted), 1)]

paste_after_cursor(b, text) ==
    IF b.cursor_row >= Len(b.lines) THEN Panic(b)
    ELSE paste_charwise(b, text, Min(b.cursor_col + 1, Len(b.lines[b.cursor_row + 1])))

paste_before_cursor(b, text) ==
    IF b.cursor_row >= Len(b.lines) THEN Panic(b)
    ELSE paste_charwise(b, text, Min(b.cursor_col, Len(b.lines[b.cursor_row + 1])))

paste_line_below(b, text) ==
    LET lines_to_insert == str_lines(text)
        insert_at == b.cursor_row + 1
    IN  IF lines_to_insert = <<>> THEN b
        ELSE IF insert_at > Len(b.lines) THEN Panic(b)
        ELSE [b EXCEPT !.lines = Take(@, insert_at) \o lines_to_insert \o Drop(@, insert_at),
                       !.cursor_row = insert_at,
                       !.cursor_col = 0]

paste_line_above(b, text) ==
    LET lines_to_insert == str_lines(text)
        insert_at == b.cursor_row
    IN  IF lines_to_insert = <<>> THEN b
        ELSE IF insert_at > Len(b.lines) THEN Panic(b)
        ELSE [b EXCEPT !.lines = Take(@, insert_at) \o lines_to_insert \o Drop(@, insert_at),
                       !.cursor_row = insert_at,
                       !.cursor_col = 0]

----------------------------------------------------------------------------
(* TextBuffer: undo / redo history *)

BufferSnapshot(b) ==
    [lines |-> b.lines, cursor_row |-> b.cursor_row, cursor_col |-> b.cursor_col]

save_undo_snapshot_NoLimit(b) ==
    [b EXCEPT !.undo_stack = Append(@, BufferSnapshot(b)), !.redo_stack = <<>>]

save_undo_snapshot_EvictsNewest(b) ==
    LET pushed == Append(b.undo_stack, BufferSnapshot(b))
    IN  [b EXCEPT !.undo_stack = IF Len(pushed) > MAX_UNDO_LEVELS
                                 THEN Take(pushed, Len(pushed) - 1) ELSE pushed,
                  !.redo_stack = <<>>]

save_undo_snapshot_KeepsRedo(b) ==
    LET pushed == Append(b.undo_stack, BufferSnapshot(b))
    IN  [b EXCEPT !.undo_stack = IF Len(pushed) > MAX_UNDO_LEVELS THEN Tail(pushed) ELSE pushed]

save_undo_snapshot_ClearsOnEviction(b) ==
    LET pushed == Append(b.undo_stack, BufferSnapshot(b))
    IN  IF Len(pushed) > MAX_UNDO_LEVELS
        THEN [b EXCEPT !.undo_stack = Tail(pushed), !.redo_stack = <<>>]
        ELSE [b EXCEPT !.undo_stack = pushed]

save_undo_snapshot(b) ==
    LET pushed == Append(b.undo_stack, BufferSnapshot(b))
    IN  [b EXCEPT !.undo_stack = IF Len(pushed) > MAX_UNDO_LEVELS THEN Tail(pushed) ELSE pushed,
                  !.redo_stack = <<>>]

undo_PushesFirst(b) ==
    IF b.undo_stack # <<>>
    THEN LET snapshot == b.undo_stack[Len(b.undo_stack)]
         IN  [buffer |-> [b EXCEPT !.undo_stack = Take(@, Len(@) - 1),
                                   !.redo_stack = Append(@, BufferSnapshot(b)),
                                   !.lines = snapshot.lines,
                                   !.cursor_row = snapshot.cursor_row,
                                   !.cursor_col = snapshot.cursor_col],
              ret |-> TRUE]
    ELSE [buffer |-> [b EXCEPT !.redo_stack = Append(@, BufferSnapshot(b))], ret |-> FALSE]

undo(b) ==
    IF b.undo_stack # <<>>
    THEN LET snapshot == b.undo_stack[Len(b.undo_stack)]
         IN  [buffer |-> [b EXCEPT !.undo_stack = Take(@, Len(@) - 1),
                                   !.redo_stack = Append(@, BufferSnapshot(b)),
                                   !.lines = snapshot.lines,
                                   !.cursor_row = snapshot.cursor_row,
                                   !.cursor_col = snapshot.cursor_col],
              ret |-> TRUE]
    ELSE [buffer |-> b, ret |-> FALSE]

redo_KeepsCursor(b) ==
    IF b.redo_stack # <<>>
    THEN LET snapshot == b.redo_stack[Len(b.redo_stack)]
         IN  [buffer |-> [b EXCEPT !.redo_stack = Take(@, Len(@) - 1),
                                   !.undo_stack = Append(@, BufferSnapshot(b)),
                                   !.lines = snapshot.lines],
              ret |-> TRUE]
    ELSE [buffer |-> b, ret |-> FALSE]

redo(b) ==
    IF b.redo_stack # <<>>
    THEN LET snapshot == b.redo_stack[Len(b.redo_stack)]
         IN  [buffer |-> [b EXCEPT !.redo_stack = Take(@, Len(@) - 1),
                                   !.undo_stack = Append(@, BufferSnapshot(b)),
                                   !.lines = snapshot.lines,
                                   !.cursor_row = snapshot.cursor_row,
                                   !.cursor_col = snapshot.cursor_col],
              ret |-> TRUE]
    ELSE [buffer |-> b, ret |-> FALSE]

----------------------------------------------------------------------------
(* TextBuffer: search.  None is <<>>, Some((r, c)) the pair <<r, c>>.        *)
(* The in-line searches return the column, -1 for None, and -2 when the    *)
(* slice of the line at the offset found in its lowercase copy panics.     *)
(* "I" stands for U+0130, a grapheme of 2 bytes whose lowercase, written   *)
(* "i", is the grapheme U+0069 U+0307 of 3 bytes; every other grapheme of  *)
(* the model is one byte and its own lowercase, but for "A".               *)

str_len(s) ==
    Len(s) + Cardinality({k \in 1..Len(s) : s[k] = "I"})
           + 2 * Cardinality({k \in 1..Len(s) : s[k] = "i"})

to_lowercase(s) ==
    [i \in 1..Len(s) |-> IF s[i] = "A" THEN "a" ELSE IF s[i] = "I" THEN "i" ELSE s[i]]

MatchAt(s, q, i) == i + Len(q) <= Len(s) /\ SubSeq(s, i + 1, i + Len(q)) = q

Matches(s, q) == {i \in 0..Len(s) : MatchAt(s, q, i)}

str_find(s, q) ==
    IF Matches(s, q) = {} THEN -1
    ELSE CHOOSE i \in Matches(s, q) : \A j \in Matches(s, q) : i <= j

str_rfind(s, q) ==
    IF Matches(s, q) = {} THEN -1
    ELSE CHOOSE i \in Matches(s, q) : \A j \in Matches(s, q) : i >= j

find_in_line_forward(line, from_col, query_lower) ==
    IF from_col >= Len(line) THEN -1
    ELSE LET search_str == Drop(line, from_col)
             search_lower == to_lowercase(search_str)
             m == str_find(search_lower, query_lower)
             byte_match == str_len(Take(search_lower, m))
             cut == {k \in 0..Len(search_str) : str_len(Take(search_str, k)) = byte_match}
         IN  IF m < 0 THEN -1
             ELSE IF cut = {} THEN -2
             ELSE from_col + (CHOOSE k \in cut : TRUE)

find_in_line_backward(line, before_col, query_lower) ==
    IF line = <<>> THEN -1
    ELSE LET search_str == Take(line, Min(before_col, Len(line)))
             search_lower == to_lowercase(search_str)
             m == str_rfind(search_lower, query_lower)
             byte_match == str_len(Take(search_lower, m))
             cut == {k \in 0..Len(search_str) : str_len(Take(search_str, k)) = byte_match}
         IN  IF m < 0 THEN -1
             ELSE IF cut = {} THEN -2
             ELSE CHOOSE k \in cut : TRUE

WrapRowsForward(b, start_row, q) ==
    {offset \in 1..(Len(b.lines) - 1) :
        find_in_line_forward(b.lines[((start_row + offset) % Len(b.lines)) + 1], 0, q) # -1}

find_next(b, query, start_row, start_col) ==
    IF query = <<>> \/ b.lines = <<>> THEN [buffer |-> b, ret |-> <<>>]
    ELSE IF start_row >= Len(b.lines) THEN [buffer |-> Panic(b), ret |-> <<>>]
    ELSE LET q == to_lowercase(query)
             total_lines == Len(b.lines)
             first == find_in_line_forward(b.lines[start_row + 1], start_col + 1, q)
             hits == WrapRowsForward(b, start_row, q)
             offset == CHOOSE o \in hits : \A o2 \in hits : o <= o2
             row == (start_row + offset) % total_lines
             col == find_in_line_forward(b.lines[row + 1], 0, q)
             last == find_in_line_forward(b.lines[start_row + 1], 0, q)
         IN  IF first = -2 THEN [buffer |-> Panic(b), ret |-> <<>>]
             ELSE IF first >= 0 THEN [buffer |-> b, ret |-> <<start_row, first>>]
             ELSE IF hits # {}
             THEN IF col = -2 THEN [buffer |-> Panic(b), ret |-> <<>>]
                  ELSE [buffer |-> b, ret |-> <<row, col>>]
             ELSE IF last = -2 THEN [buffer |-> Panic(b), ret |-> <<>>]
             ELSE IF last >= 0 /\ last <= start_col
             THEN [buffer |-> b, ret |-> <<start_row, last>>]
             ELSE [buffer |-> b, ret |-> <<>>]

WrapRowsBackward(b, start_row, q) ==
    {offset \in 1..(Len(b.lines) - 1) :
        LET line == b.lines[((start_row + Len(b.lines) - offset) % Len(b.lines)) + 1]
        IN  find_in_line_backward(line, Len(line), q) # -1}

find_prev(b, query, start_row, start_col) ==
    IF query = <<>> \/ b.lines = <<>> THEN [buffer |-> b, ret |-> <<>>]
    ELSE LET q == to_lowercase(query)
             total_lines == Len(b.lines)
             first == find_in_line_backward(b.lines[start_row + 1], start_col - 1, q)
             hits == WrapRowsBackward(b, start_row, q)
             offset == CHOOSE o \in hits : \A o2 \in hits : o <= o2
             row == (start_row + total_lines - offset) % total_lines
             col == find_in_line_backward(b.lines[row + 1], Len(b.lines[row + 1]), q)
             line == b.lines[start_row + 1]
             last == find_in_line_backward(line, Len(line), q)
         IN  IF start_col > 0 /\ start_row >= total_lines
             THEN [buffer |-> Panic(b), ret |-> <<>>]
             ELSE IF start_col > 0 /\ first = -2
             THEN [buffer |-> Panic(b), ret |-> <<>>]
             ELSE IF start_col > 0 /\ first >= 0
             THEN [buffer |-> b, ret |-> <<start_row, first>>]
             ELSE IF hits # {}
             THEN IF col = -2 THEN [buffer |-> Panic(b), ret |-> <<>>]
                  ELSE [buffer |-> b, ret |-> <<row, col>>]
             ELSE IF start_row >= total_lines
             THEN [buffer |-> Panic(b), ret |-> <<>>]
             ELSE IF Len(line) > start_col /\ last = -2
             THEN [buffer |-> Panic(b), ret |-> <<>>]
             ELSE IF Len(line) > start_col /\ last >= 0 /\ last > start_col
             THEN [buffer |-> b, ret |-> <<start_row, last>>]
             ELSE [buffer |-> b, ret |-> <<>>]

----------------------------------------------------------------------------
(* TextBuffer: display-column helpers used by VisualMode.  A grapheme's    *)
(* display width is 2 for a full-width glyph ("W"), 0 for a zero-width    *)
(* grapheme ("Z", U+200B) and 1 otherwise; a position past the end of its  *)
(* line counts as one column wide.                                         *)

width(g) == IF g = "W" THEN 2 ELSE IF g = "Z" THEN 0 ELSE 1

RECURSIVE SumWidth(_)
SumWidth(g) == IF g = <<>> THEN 0 ELSE width(Head(g)) + SumWidth(Tail(g))

LineAt(b, row) == IF row < Len(b.lines) THEN b.lines[row + 1] ELSE <<>>

display_col_at(b, row, col) ==
    LET g == LineAt(b, row)
    IN  SumWidth(Take(g, Min(col, Len(g)))) + SatSub(col, Len(g))

grapheme_display_width(b, row, col) ==
    LET g == LineAt(b, row)
    IN  IF col < Len(g) THEN width(g[col + 1]) ELSE 1

grapheme_at_display_col(b, row, target) ==
    LET g == LineAt(b, row)
        inside == {i \in 0..(Len(g) - 1) : SumWidth(Take(g, i + 1)) > target}
    IN  IF inside = {} THEN Len(g)
        ELSE CHOOSE i \in inside : \A j \in inside : i <= j

grapheme_range_for_display_cols(b, row, left, right) ==
    LET g == LineAt(b, row)
        g_start == grapheme_at_display_col(b, row, left)
        upto == {i \in 0..(Len(g) - 1) : SumWidth(Take(g, i)) <= right}
        g_end == IF upto = {} THEN 0
                 ELSE 1 + (CHOOSE i \in upto : \A j \in upto : i >= j)
    IN  <<g_start, Max(g_start, g_end)>>

----------------------------------------------------------------------------
(* VisualMode: selection kinds and selection-scoped deletion / yank *)

VisualTypes == {"Character", "Line", "Block"}

normalize_range_AnchorFirst(anchor, cursor) == <<anchor, cursor>>

normalize_range(anchor, cursor) ==
    IF PosLeq(anchor[1], anchor[2], cursor[1], cursor[2])
    THEN <<anchor, cursor>>
    ELSE <<cursor, anchor>>

block_display_range_GraphemeCols(b, anchor, cursor) ==
    <<Min(anchor[2], cursor[2]), Max(anchor[2], cursor[2])>>

block_display_range(b, anchor, cursor) ==
    LET anchor_start == display_col_at(b, anchor[1], anchor[2])
        anchor_end == anchor_start + grapheme_display_width(b, anchor[1], anchor[2]) - 1
        cursor_start == display_col_at(b, cursor[1], cursor[2])
        cursor_end == cursor_start + grapheme_display_width(b, cursor[1], cursor[2]) - 1
    IN  <<Min(anchor_start, cursor_start), Max(anchor_end, cursor_end)>>

(* Returns the RenderSelection, kind naming its variant. *)
render_data(visual_type, anchor, b, cursor) ==
    CASE visual_type = "Character" ->
            LET n == normalize_range(anchor, cursor)
            IN  [kind |-> "CharacterRange", start |-> n[1], end |-> n[2]]
      [] visual_type = "Line" ->
            [kind |-> "LineRange",
             start_row |-> Min(anchor[1], cursor[1]),
             end_row |-> Max(anchor[1], cursor[1])]
      [] OTHER ->
            LET dr == block_display_range(b, anchor, cursor)
            IN  [kind |-> "BlockRegion",
                 top_row |-> Min(anchor[1], cursor[1]),
                 bottom_row |-> Max(anchor[1], cursor[1]),
                 left_col |-> dr[1],
                 right_col |-> dr[2]]

RECURSIVE DeleteLines(_, _, _)
DeleteLines(b, start_row, n) ==
    IF n = 0 \/ b.panicked THEN [buffer |-> b, ret |-> <<>>]
    ELSE LET d == delete_line_and_return(set_cursor(b, start_row, 0))
             rest == DeleteLines(d.buffer, start_row, n - 1)
         IN  [buffer |-> rest.buffer, ret |-> d.ret \o rest.ret]

RECURSIVE DeleteBlockRows_TextStopsAtEdge(_, _, _, _, _)
DeleteBlockRows_TextStopsAtEdge(b, top_row, row, left, right) ==
    LET r == grapheme_range_for_display_cols(b, row, left, right)
        d == delete_range(b, row, r[1], row, r[2])
        whole == display_col_at(b, row, r[2]) <= right + 1
        text == IF whole THEN d.ret ELSE Take(d.ret, Len(d.ret) - 1)
    IN  IF d.buffer.panicked THEN d
        ELSE IF row > top_row
        THEN LET above == DeleteBlockRows_TextStopsAtEdge(d.buffer, top_row, row - 1, left, right)
             IN  [buffer |-> above.buffer, ret |-> above.ret \o <<"\n">> \o text]
        ELSE [buffer |-> d.buffer, ret |-> text]

RECURSIVE DeleteBlockRows(_, _, _, _, _)
DeleteBlockRows(b, top_row, row, left, right) ==
    LET r == grapheme_range_for_display_cols(b, row, left, right)
        d == delete_range(b, row, r[1], row, r[2])
    IN  IF d.buffer.panicked THEN d
        ELSE IF row > top_row
        THEN LET above == DeleteBlockRows(d.buffer, top_row, row - 1, left, right)
             IN  [buffer |-> above.buffer, ret |-> above.ret \o <<"\n">> \o d.ret]
        ELSE d

delete_selection(visual_type, anchor, b, cursor) ==
    CASE visual_type = "Character" ->
            LET n == normalize_range(anchor, cursor)
            IN  delete_range(b, n[1][1], n[1][2], n[2][1], n[2][2] + 1)
      [] visual_type = "Line" ->
            LET start_row == Min(anchor[1], cursor[1])
                end_row == Max(anchor[1], cursor[1])
            IN  DeleteLines(b, start_row, end_row - start_row + 1)
      [] OTHER ->
            LET top_row == Min(anchor[1], cursor[1])
                bottom_row == Max(anchor[1], cursor[1])
                dr == block_display_range(b, anchor, cursor)
                d == DeleteBlockRows(b, top_row, bottom_row, dr[1], dr[2])
            IN  IF d.buffer.panicked THEN d
                ELSE [buffer |-> set_cursor(d.buffer, top_row,
                                            grapheme_at_display_col(d.buffer, top_row, dr[1])),
                      ret |-> d.ret]

yank_selection(visual_type, anchor, b, cursor) ==
    CASE visual_type = "Character" ->
            LET n == normalize_range(anchor, cursor)
            IN  extract_range(b, n[1][1], n[1][2], n[2][1], n[2][2] + 1)
      [] visual_type = "Line" ->
            LET start_row == Min(anchor[1], cursor[1])
                end_row == Max(anchor[1], cursor[1])
            IN  [buffer |-> b,
                 ret |-> Concat([i \in 1..(end_row - start_row + 1) |->
                            IF start_row + i - 1 < Len(b.lines)
                            THEN b.lines[start_row + i] \o <<"\n">>
                            ELSE <<>>])]
      [] OTHER ->
            LET top_row == Min(anchor[1], cursor[1])
                bottom_row == Max(anchor[1], cursor[1])
                dr == block_display_range(b, anchor, cursor)
                rows == [i \in 1..(bottom_row - top_row + 1) |->
                            LET r == grapheme_range_for_display_cols(
                                         b, top_row + i - 1, dr[1], dr[2])
                            IN  extract_range(b, top_row + i - 1, r[1], top_row + i - 1, r[2])]
            IN  IF \E i \in 1..Len(rows) : rows[i].buffer.panicked
                THEN [buffer |-> Panic(b), ret |-> <<>>]
                ELSE [buffer |-> b, ret |-> join([i \in 1..Len(rows) |-> rows[i].ret])]

----------------------------------------------------------------------------
(* Soft-wrap calculation (atoms/widgets/wrap_calc.rs).  wrap_width is the   *)
(* `width` argument of the functions, width(g) the display width of a       *)
(* grapheme.                                                                *)

display_rows_for_line_KeepsCol(line, wrap_width) ==
    LET RECURSIVE rows_from(_, _, _)
        rows_from(i, rows, col) ==
            IF i > Len(line) THEN rows
            ELSE LET gw == width(line[i])
                 IN  IF gw = 0 THEN rows_from(i + 1, rows, col)
                     ELSE IF col + gw > wrap_width
                     THEN rows_from(i + 1, rows + 1, col)
                     ELSE rows_from(i + 1, rows, col + gw)
    IN  IF wrap_width = 0 THEN 1 ELSE rows_from(1, 1, 0)

display_rows_for_line(line, wrap_width) ==
    LET RECURSIVE rows_from(_, _, _)
        rows_from(i, rows, col) ==
            IF i > Len(line) THEN rows
            ELSE LET gw == width(line[i])
                 IN  IF gw = 0 THEN rows_from(i + 1, rows, col)
                     ELSE IF col + gw > wrap_width
                     THEN rows_from(i + 1, rows + 1, gw)
                     ELSE rows_from(i + 1, rows, col + gw)
    IN  IF wrap_width = 0 THEN 1 ELSE rows_from(1, 1, 0)

(* Returns the VisualPosition record. *)
visual_cursor_position(lines, cursor_row, cursor_col, wrap_width) ==
    LET w == IF wrap_width = 0 THEN 1 ELSE wrap_width
        RECURSIVE sum_rows(_)
        sum_rows(ls) ==
            IF ls = <<>> THEN 0
            ELSE display_rows_for_line(Head(ls), wrap_width) + sum_rows(Tail(ls))
        line == IF cursor_row < Len(lines) THEN lines[cursor_row + 1] ELSE <<>>
        RECURSIVE walk(_, _, _)
        walk(i, wrap_row, col) ==
            IF i > Len(line) THEN <<wrap_row, col>>
            ELSE LET gw == width(line[i])
                     wraps == gw > 0 /\ col + gw > w
                     wrap_row1 == IF wraps THEN wrap_row + 1 ELSE wrap_row
                     col1 == IF wraps THEN 0 ELSE col
                 IN  IF i - 1 >= cursor_col THEN <<wrap_row1, col1>>
                     ELSE walk(i + 1, wrap_row1, col1 + gw)
        at == walk(1, 0, 0)
    IN  [rows_before |-> sum_rows(Take(lines, cursor_row)),
         wrap_row |-> at[1],
         col |-> at[2],
         line_display_rows |-> display_rows_for_line(line, wrap_width)]

(* Returns the sequence of (wrap_row, col, width) entries. *)
visual_positions_in_range(line, col_start, col_end, wrap_width) ==
    LET w == IF wrap_width = 0 THEN 1 ELSE wrap_width
        RECURSIVE trailing(_, _, _, _)
        trailing(grapheme_idx, wrap_row, col, result) ==
            IF grapheme_idx < col_end /\ grapheme_idx >= col_start
            THEN LET wraps == col + 1 > w
                     wrap_row1 == IF wraps THEN wrap_row + 1 ELSE wrap_row
                     col1 == IF wraps THEN 0 ELSE col
                 IN  trailing(grapheme_idx + 1, wrap_row1, col1 + 1,
                              Append(result, <<wrap_row1, col1, 1>>))
            ELSE result
        RECURSIVE walk(_, _, _, _)
        walk(i, wrap_row, col, result) ==
            IF i > Len(line) THEN trailing(Len(line), wrap_row, col, result)
            ELSE LET gw == width(line[i])
                     wraps == gw > 0 /\ col + gw > w
                     wrap_row1 == IF wraps THEN wrap_row + 1 ELSE wrap_row
                     col1 == IF wraps THEN 0 ELSE col
                     grapheme_idx == i - 1
                 IN  walk(i + 1, wrap_row1, col1 + gw,
                          IF grapheme_idx >= col_start /\ grapheme_idx < col_end
                          THEN Append(result, <<wrap_row1, col1, gw>>)
                          ELSE result)
    IN  walk(1, 0, 0, <<>>)

(* The renderer's line splitter (atoms/widgets/editor_widget.rs).  The     *)
(* styled Line is its graphemes in order; the result is the sequence of    *)
(* display lines, each the graphemes build_display_line was given.         *)
split_line_by_width(line, wrap_width) ==
    LET RECURSIVE split(_, _, _, _)
        split(i, line_start, col, result) ==
            IF i > Len(line)
            THEN Append(result, SubSeq(line, line_start, Len(line)))
            ELSE LET gw == width(line[i])
                 IN  IF gw > 0 /\ col + gw > wrap_width
                     THEN split(i + 1, i, gw,
                                Append(result, SubSeq(line, line_start, i - 1)))
                     ELSE split(i + 1, line_start, col + gw, result)
    IN  IF wrap_width = 0 THEN <<line>>
        ELSE IF line = <<>> THEN << <<>> >>
        ELSE split(1, 1, 0, <<>>)

----------------------------------------------------------------------------
(* List prefixes (molecules/editor/list_prefix.rs) and the TextBuffer       *)
(* operations built on them.  An Option is <<>> for None and a one- or      *)
(* two-element sequence for Some.                                           *)

starts_with(s, prefix) == Len(s) >= Len(prefix) /\ Take(s, Len(prefix)) = prefix

trim_start(line) == Drop(line, LeadingSpaces(line))

(* Some(continuation) is <<continuation>>. *)
try_ordered_prefix(trimmed, delim) ==
    LET Digits == <<"0", "1", "2", "3", "4", "5", "6", "7", "8", "9">>
        IsDigit(g) == \E d \in 1..10 : Digits[d] = g
        Value(g) == (CHOOSE d \in 1..10 : Digits[d] = g) - 1
        RECURSIVE Parse(_)
        Parse(ds) == IF ds = <<>> THEN 0 ELSE 10 * Parse(Take(ds, Len(ds) - 1)) + Value(ds[Len(ds)])
        RECURSIVE Format(_)
        Format(n) == IF n < 10 THEN <<Digits[n + 1]>> ELSE Append(Format(n \div 10), Digits[(n % 10) + 1])
        found == {i \in 1..Len(trimmed) : trimmed[i] = delim}
        delim_pos == (CHOOSE i \in found : \A j \in found : i <= j) - 1
        num_str == Take(trimmed, delim_pos)
        digits == IF num_str # <<>> /\ num_str[1] = "+" THEN Tail(num_str) ELSE num_str
        after_delim == Drop(trimmed, delim_pos + 1)
    IN  IF found = {} THEN <<>>
        ELSE IF delim_pos = 0 THEN <<>>
        ELSE IF digits = <<>> \/ \E i \in 1..Len(digits) : ~IsDigit(digits[i]) THEN <<>>
        ELSE IF after_delim = <<>> \/ after_delim[1] = " "
        THEN << Format(Parse(digits) + 1) \o <<delim, " ">> >>
        ELSE <<>>

(* Some(ListPrefix) is <<indent, continuation>>. *)
detect_list_prefix(line) ==
    LET trimmed == trim_start(line)
        indent == Take(line, Len(line) - Len(trimmed))
        unchecked == <<"-", " ", "[", " ", "]">>
        checked == <<"-", " ", "[", "x", "]">>
        checkedX == <<"-", " ", "[", "X", "]">>
        dot == try_ordered_prefix(trimmed, ".")
        paren == try_ordered_prefix(trimmed, ")")
    IN  IF \/ starts_with(trimmed, unchecked \o <<" ">>)
           \/ starts_with(trimmed, checked \o <<" ">>)
           \/ starts_with(trimmed, checkedX \o <<" ">>)
        THEN <<indent, unchecked \o <<" ">> >>
        ELSE IF trimmed \in {unchecked, checked, checkedX}
        THEN <<indent, unchecked \o <<" ">> >>
        ELSE IF dot # <<>> THEN <<indent, dot[1]>>
        ELSE IF paren # <<>> THEN <<indent, paren[1]>>
        ELSE IF starts_with(trimmed, <<"-", " ">>) THEN <<indent, <<"-", " ">> >>
        ELSE IF trimmed = <<"-">> THEN <<indent, <<"-", " ">> >>
        ELSE <<>>

is_prefix_only_DashOnly(line) == trim_start(line) \in {<<"-", " ">>, <<"-">>}

is_prefix_only(line) ==
    LET trimmed == trim_start(line)
        boxes == {<<"-", " ", "[", c, "]">> : c \in {" ", "x", "X"}}
        trailing == Len(trimmed) - LeadingSpaces([i \in 1..Len(trimmed) |->
                                                     trimmed[Len(trimmed) + 1 - i]])
        trimmed_end == Take(trimmed, trailing)
        Ordered(delim) ==
            LET found == {i \in 1..Len(trimmed_end) : trimmed_end[i] = delim}
                delim_pos == (CHOOSE i \in found : \A j \in found : i >= j) - 1
                after == Drop(trimmed, delim_pos + 1)
            IN  /\ found # {}
                /\ delim_pos > 0
                /\ \A i \in 1..delim_pos :
                      trimmed_end[i] \in {"0", "1", "2", "3", "4", "5", "6", "7", "8", "9"}
                /\ after \in {<<>>, <<" ">>}
    IN  \/ trimmed \in boxes \cup {bx \o <<" ">> : bx \in boxes}
        \/ trimmed \in {<<"-", " ">>, <<"-">>}
        \/ Ordered(".")
        \/ Ordered(")")

has_checkbox_prefix(line) ==
    LET trimmed == trim_start(line)
        boxes == {<<"-", " ", "[", c, "]">> : c \in {" ", "x", "X"}}
    IN  \/ \E bx \in boxes : starts_with(trimmed, bx \o <<" ">>)
        \/ trimmed \in boxes

(* Some(new_line) is <<new_line>>. *)
toggle_checkbox_prefix(line) ==
    LET trimmed == trim_start(line)
        indent == Take(line, Len(line) - Len(trimmed))
        unchecked == <<"-", " ", "[", " ", "]">>
        checked == <<"-", " ", "[", "x", "]">>
        checkedX == <<"-", " ", "[", "X", "]">>
    IN  IF starts_with(trimmed, unchecked \o <<" ">>)
        THEN << indent \o checked \o <<" ">> \o Drop(trimmed, 6) >>
        ELSE IF trimmed = unchecked THEN << indent \o checked >>
        ELSE IF starts_with(trimmed, checked \o <<" ">>) \/ starts_with(trimmed, checkedX \o <<" ">>)
        THEN << indent \o unchecked \o <<" ">> \o Drop(trimmed, 6) >>
        ELSE IF trimmed \in {checked, checkedX} THEN << indent \o unchecked >>
        ELSE <<>>

(* Some(new_line) is <<new_line>>. *)
insert_checkbox_prefix(line) ==
    LET trimmed == trim_start(line)
        indent == Take(line, Len(line) - Len(trimmed))
    IN  IF has_checkbox_prefix(line) THEN <<>>
        ELSE << indent \o <<"-", " ", "[", " ", "]", " ">> \o trimmed >>

RECURSIVE insert_tab(_, _)
insert_tab(b, tab_width) ==
    IF tab_width = 0 \/ b.panicked THEN b
    ELSE insert_tab(insert_char(b, " "), tab_width - 1)

insert_line_below_with_prefix(b, prefix) ==
    IF b.cursor_row + 1 > Len(b.lines) THEN Panic(b)
    ELSE [b EXCEPT !.lines = VecInsert(@, b.cursor_row + 1, prefix),
                   !.cursor_row = @ + 1,
                   !.cursor_col = Len(prefix)]

insert_newline_with_prefix(b, prefix) ==
    IF b.cursor_row >= Len(b.lines) THEN Panic(b)
    ELSE LET line == b.lines[b.cursor_row + 1]
             split_pos == Min(b.cursor_col, Len(line))
             before == Take(line, split_pos)
             after == Drop(line, split_pos)
         IN  [b EXCEPT !.lines = VecInsert([@ EXCEPT ![b.cursor_row + 1] = before],
                                           b.cursor_row + 1, prefix \o after),
                       !.cursor_row = @ + 1,
                       !.cursor_col = Len(prefix)]

clear_current_line_Snapshots(b) ==
    IF b.cursor_row >= Len(b.lines) THEN Panic(b)
    ELSE [save_undo_snapshot(b) EXCEPT !.lines[b.cursor_row + 1] = <<>>, !.cursor_col = 0]

clear_current_line(b) ==
    IF b.cursor_row >= Len(b.lines) THEN Panic(b)
    ELSE [b EXCEPT !.lines[b.cursor_row + 1] = <<>>, !.cursor_col = 0]

insert_checkbox(b) ==
    LET line == current_line(b)
        new_line == insert_checkbox_prefix(line)
    IN  IF new_line = <<>> THEN b
        ELSE IF b.cursor_row >= Len(b.lines) THEN Panic(b)
        ELSE [b EXCEPT !.lines[b.cursor_row + 1] = new_line[1],
                       !.cursor_col = @ + SatSub(Len(new_line[1]), Len(line))]

toggle_checkbox(b) ==
    LET new_line == toggle_checkbox_prefix(current_line(b))
    IN  IF new_line = <<>> THEN b
        ELSE IF b.cursor_row >= Len(b.lines) THEN Panic(b)
        ELSE [b EXCEPT !.lines[b.cursor_row + 1] = new_line[1]]

----------------------------------------------------------------------------
(* Coordinator (coordinator/app.rs, coordinator/event_dispatcher.rs): the  *)
(* App fields the editor handlers read and write, and the handlers.  Each  *)
(* handler returns [app, buffer].  clipboard is what clipboard_paste()     *)
(* hands back (<<>> also when it fails), tab_width the configured width.   *)

(* App::new: Normal mode, no linewise yank. *)
app_new == [mode |-> "Normal", last_yank_linewise |-> FALSE]

set_mode(a, mode) == [a EXCEPT !.mode = mode]

(* Leaves Insert mode for Normal mode. *)
exit_insert_mode(a) == set_mode(a, "Normal")

handle_paste_NoSnapshot(a, b, text) ==
    CASE a.mode = "Insert" -> [app |-> a, buffer |-> insert_text(b, text)]
      [] a.mode = "Normal" ->
            IF text # <<>>
            THEN [app |-> a, buffer |-> paste_after_cursor(b, text)]
            ELSE [app |-> a, buffer |-> b]
      [] OTHER -> [app |-> a, buffer |-> b]

handle_paste(a, b, text) ==
    CASE a.mode = "Insert" ->
            [app |-> a, buffer |-> insert_text(save_undo_snapshot(b), text)]
      [] a.mode = "Normal" ->
            IF text # <<>>
            THEN [app |-> a, buffer |-> paste_after_cursor(save_undo_snapshot(b), text)]
            ELSE [app |-> a, buffer |-> b]
      [] OTHER -> [app |-> a, buffer |-> b]

handle_editor_normal(a, b, action, clipboard, tab_width) ==
    LET kind == action.kind
        snap == save_undo_snapshot(b)
        Keep(b2) == [app |-> a, buffer |-> b2]
        Insert(b2) == [app |-> set_mode(a, "Insert"), buffer |-> b2]
    IN  CASE kind = "MoveLeft" -> Keep(move_left(b))
          [] kind = "MoveRight" -> Keep(move_right(b))
          [] kind = "MoveUp" -> Keep(move_up(b))
          [] kind = "MoveDown" -> Keep(move_down(b))
          [] kind = "MoveWordForward" -> Keep(move_word_forward(b))
          [] kind = "MoveWordBackward" -> Keep(move_word_backward(b))
          [] kind = "MoveLineStart" -> Keep(move_to_line_start(b))
          [] kind = "MoveLineEnd" -> Keep(move_to_line_end(b))
          [] kind = "MoveFileStart" -> Keep(move_to_first_line(b))
          [] kind = "MoveFileEnd" -> Keep(move_to_last_line(b))
          [] kind = "InsertMode" -> Insert(snap)
          [] kind = "InsertModeAppend" -> Insert(move_right(snap))
          [] kind = "InsertModeLineEnd" -> Insert(move_to_line_end(snap))
          [] kind = "InsertModeLineStart" -> Insert(move_to_line_start(snap))
          [] kind = "InsertLineBelow" ->
                LET line == current_line(snap)
                    prefix == detect_list_prefix(line)
                IN  IF is_prefix_only(line)
                    THEN LET cleared == clear_current_line(snap)
                         IN  IF cleared.panicked THEN Keep(cleared)
                             ELSE Insert(insert_line_below(cleared))
                    ELSE IF prefix # <<>>
                    THEN Insert(insert_line_below_with_prefix(snap, prefix[1] \o prefix[2]))
                    ELSE Insert(insert_line_below(snap))
          [] kind = "InsertLineAbove" -> Insert(insert_line_above(snap))
          [] kind = "DeleteChar" -> Keep(delete_char(snap))
          [] kind = "DeleteLine" -> Keep(delete_line(snap))
          [] kind = "Delete" ->
                LET d == apply_motion_delete(snap, action.arg)
                IN  [app |-> IF d.buffer.panicked THEN a
                             ELSE [a EXCEPT !.last_yank_linewise = d.ret[2]],
                     buffer |-> d.buffer]
          [] kind = "Yank" ->
                LET y == apply_motion_yank(b, action.arg)
                IN  [app |-> IF y.buffer.panicked THEN a
                             ELSE [a EXCEPT !.last_yank_linewise = y.ret[2]],
                     buffer |-> y.buffer]
          [] kind = "PasteAfter" ->
                IF clipboard = <<>> THEN Keep(b)
                ELSE IF a.last_yank_linewise THEN Keep(paste_line_below(snap, clipboard))
                ELSE Keep(paste_after_cursor(snap, clipboard))
          [] kind = "PasteBefore" ->
                IF clipboard = <<>> THEN Keep(b)
                ELSE IF a.last_yank_linewise THEN Keep(paste_line_above(snap, clipboard))
                ELSE Keep(paste_before_cursor(snap, clipboard))
          [] kind = "Undo" -> Keep(undo(b).buffer)
          [] kind = "Redo" -> Keep(redo(b).buffer)
          [] kind = "Indent" -> Keep(indent_line(snap, tab_width))
          [] kind = "Dedent" -> Keep(dedent_line(snap, tab_width))
          [] kind = "InsertCheckbox" -> Keep(insert_checkbox(snap))
          [] kind = "ToggleCheckbox" -> Keep(toggle_checkbox(snap))
          [] OTHER -> Keep(b)

handle_insert_action(a, b, action, tab_width) ==
    LET kind == action.kind
        Keep(b2) == [app |-> a, buffer |-> b2]
    IN  CASE kind = "InsertChar" -> Keep(insert_char(b, action.arg))
          [] kind = "InsertTab" -> Keep(insert_tab(b, tab_width))
          [] kind = "Dedent" -> Keep(dedent_line(b, tab_width))
          [] kind = "InsertNewline" ->
                LET line == current_line(b)
                    prefix == detect_list_prefix(line)
                IN  IF is_prefix_only(line)
                    THEN LET cleared == clear_current_line(b)
                         IN  IF cleared.panicked THEN Keep(cleared)
                             ELSE Keep(insert_newline(cleared))
                    ELSE IF prefix # <<>>
                    THEN Keep(insert_newline_with_prefix(b, prefix[1] \o prefix[2]))
                    ELSE Keep(insert_newline(b))
          [] kind = "Backspace" -> Keep(backspace(b))
          [] kind = "DeleteChar" -> Keep(delete_char(b))
          [] kind = "MoveLeft" -> Keep(move_left(b))
          [] kind = "MoveRight" -> Keep(move_right(b))
          [] kind = "MoveUp" -> Keep(move_up(b))
          [] kind = "MoveDown" -> Keep(move_down(b))
          [] kind = "MoveLineStart" -> Keep(move_to_line_start(b))
          [] kind = "MoveLineEnd" -> Keep(move_to_line_end(b))
          [] kind = "ExitToNormal" -> [app |-> exit_insert_mode(a), buffer |-> b]
          [] OTHER -> Keep(b)

(* App::visual_delete and App::visual_yank with a selection active: the    *)
(* selection of kind visual_type from anchor to the cursor is deleted or   *)
(* copied and Visual mode is left.  Both return [buffer, ret], ret being   *)
(* the text.                                                               *)
visual_delete(b, visual_type, anchor) ==
    delete_selection(visual_type, anchor, b, <<b.cursor_row, b.cursor_col>>)

visual_yank(b, visual_type, anchor) ==
    yank_selection(visual_type, anchor, b, <<b.cursor_row, b.cursor_col>>)

(* The selection-scoped delete and yank of Visual mode, the selection      *)
(* being of kind visual_type from anchor to the cursor.  Returns           *)
(* [app, buffer, clipboard], clipboard being <<text>> when a text was      *)
(* copied to the system clipboard and <<>> when none was.                  *)
handle_visual_action(a, b, action, visual_type, anchor) ==
    LET Copied(v) ==
            [app |-> IF v.buffer.panicked THEN a
                     ELSE set_mode([a EXCEPT !.last_yank_linewise = FALSE], "Normal"),
             buffer |-> v.buffer,
             clipboard |-> IF v.buffer.panicked THEN <<>> ELSE <<v.ret>>]
    IN  CASE action.kind = "VisualDelete" ->
                Copied(visual_delete(save_undo_snapshot(b), visual_type, anchor))
          [] action.kind = "VisualYank" ->
                Copied(visual_yank(b, visual_type, anchor))
          [] OTHER -> [app |-> a, buffer |-> b, clipboard |-> <<>>]

----------------------------------------------------------------------------
(* Inputs of the model: arguments are drawn from small sets that reach past *)
(* the end of the document (row = line count, column = line length + 1).   *)

Rows == 0..MaxLines
Cols == 0..(MaxLen + 1)
Chars == Graphemes \cup {"\n"}
Texts == {<<>>} \cup {<<c>> : c \in Chars} \cup {<<c, d>> : c \in Chars, d \in Chars}
Queries == {<<>>, <<"a">>, <<" ">>, <<"A", " ">>}
Positions == (0..(MaxLines - 1)) \X (0..MaxLen)
InitContents == {<<>>, <<"\n">>, <<"\n", "\n">>, <<"a", "\n", " ">>}

InBounds(b) ==
    /\ Len(b.lines) <= MaxLines
    /\ \A i \in 1..Len(b.lines) : Len(b.lines[i]) <= MaxLen
    /\ b.cursor_row <= MaxLines
    /\ b.cursor_col <= MaxLen + 1
    /\ Len(b.undo_stack) + Len(b.redo_stack) <= MaxHist

(* VimMode::new: no leader sequence and no operator pending. *)
vim_new ==
    [leader_state |-> [tag |-> "Inactive", first |-> ""], operator_state |-> "None"]

(* One call of a TextBuffer operation by the owning thread, made on a live *)
(* program: the buffer becomes b2.  A value the call returns is dropped.   *)
Call(b2) ==
    /\ ~buffer.panicked
    /\ InBounds(b2)
    /\ buffer' = b2
    /\ UNCHANGED <<op, ret, content, cycles, undos, taken, vim, args, leader_keys, app>>

Init ==
    /\ buffer \in {new} \cup {from_string(s) : s \in InitContents}
    /\ op = "init"
    /\ ret = "unit"
    /\ content = <<>>
    /\ cycles = 0
    /\ undos = 0
    /\ taken = <<>>
    /\ vim = vim_new
    /\ args = <<>>
    /\ leader_keys = 0
    /\ app = app_new

Next ==
    \/ \E row \in Rows, col \in Cols : Call(set_cursor(buffer, row, col))
    \/ \E c \in Chars : Call(insert_char(buffer, c))
    \/ \E t \in Texts : Call(insert_text(buffer, t))
    \/ Call(insert_newline(buffer))
    \/ Call(backspace(buffer))
    \/ Call(delete_char(buffer))
    \/ \E w \in TabWidths : Call(indent_line(buffer, w))
    \/ \E w \in TabWidths : Call(dedent_line(buffer, w))
    \/ \E sr \in Rows, er \in Rows, w \in TabWidths :
          Call(indent_lines(buffer, sr, er, w))
    \/ \E sr \in Rows, er \in Rows, w \in TabWidths :
          Call(dedent_lines(buffer, sr, er, w))
    \/ Call(move_left(buffer))
    \/ Call(move_right(buffer))
    \/ Call(move_up(buffer))
    \/ Call(move_down(buffer))
    \/ Call(move_to_line_start(buffer))
    \/ Call(move_to_line_end(buffer))
    \/ Call(move_to_first_line(buffer))
    \/ Call(move_to_last_line(buffer))
    \/ Call(move_word_forward(buffer))
    \/ Call(move_word_backward(buffer))
    \/ Call(delete_line(buffer))
    \/ Call(insert_line_below(buffer))
    \/ Call(insert_line_above(buffer))
    \/ \E sr \in Rows, sc \in Cols, er \in Rows, ec \in Cols :
          Call(delete_range(buffer, sr, sc, er, ec).buffer)
    \/ \E sr \in Rows, sc \in Cols, er \in Rows, ec \in Cols :
          Call(extract_range(buffer, sr, sc, er, ec).buffer)
    \/ \E m \in Motions : Call(apply_motion_delete(buffer, m).buffer)
    \/ \E m \in Motions : Call(apply_motion_yank(buffer, m).buffer)
    \/ \E t \in Texts : Call(paste_after_cursor(buffer, t))
    \/ \E t \in Texts : Call(paste_before_cursor(buffer, t))
    \/ \E t \in Texts : Call(paste_line_below(buffer, t))
    \/ \E t \in Texts : Call(paste_line_above(buffer, t))
    \/ Call(save_undo_snapshot(buffer))
    \/ Call(undo(buffer).buffer)
    \/ Call(redo(buffer).buffer)
    \/ \E q \in Queries, row \in Rows, col \in Cols :
          Call(find_next(buffer, q, row, col).buffer)
    \/ \E q \in Queries, row \in Rows, col \in Cols :
          Call(find_prev(buffer, q, row, col).buffer)
    \/ \E t \in VisualTypes, a \in Positions, c \in Positions :
          Call(delete_selection(t, a, buffer, c).buffer)

Spec == Init /\ [][Next]_vars

----------------------------------------------------------------------------
(* Argument scenario: the operations that take row, column or range        *)
(* arguments, called with arbitrary arguments on documents built by typing. *)
(* op records the operation called last and ret what it returned.          *)

CallRecorded(name, b2, r) ==
    /\ ~buffer.panicked
    /\ InBounds(b2)
    /\ buffer' = b2
    /\ op' = name
    /\ ret' = r
    /\ UNCHANGED <<content, cycles, undos, taken, vim, args, leader_keys, app>>

NextArgs ==
    \/ \E c \in Chars : CallRecorded("insert_char", insert_char(buffer, c), "unit")
    \/ \E row \in Rows, col \in Cols :
          CallRecorded("set_cursor", set_cursor(buffer, row, col), "unit")
    \/ \E sr \in Rows, sc \in Cols, er \in Rows, ec \in Cols :
          LET d == delete_range(buffer, sr, sc, er, ec)
          IN  CallRecorded("delete_range", d.buffer, d.ret)
    \/ \E sr \in Rows, sc \in Cols, er \in Rows, ec \in Cols :
          LET d == extract_range(buffer, sr, sc, er, ec)
          IN  CallRecorded("extract_range", d.buffer, d.ret)
    \/ \E q \in Queries, row \in Rows, col \in Cols :
          LET f == find_next(buffer, q, row, col)
          IN  CallRecorded("find_next", f.buffer, f.ret)
    \/ \E q \in Queries, row \in Rows, col \in Cols :
          LET f == find_prev(buffer, q, row, col)
          IN  CallRecorded("find_prev", f.buffer, f.ret)
    \/ \E sr \in Rows, er \in Rows, w \in TabWidths :
          CallRecorded("indent_lines", indent_lines(buffer, sr, er, w), "unit")
    \/ \E sr \in Rows, er \in Rows, w \in TabWidths :
          CallRecorded("dedent_lines", dedent_lines(buffer, sr, er, w), "unit")

SpecArgs == Init /\ [][NextArgs]_vars

----------------------------------------------------------------------------
(* History scenario: snapshot + edit cycles as the callers make them (one  *)
(* save_undo_snapshot, then one edit), interleaved with undo and redo.     *)
(* The edit types one grapheme at the cursor, chosen by the length of the  *)
(* line as test_undo_limit_50 chooses it by the cycle number.              *)
(*   cycles: completed cycles since the last undo or redo                  *)
(*   taken:  the snapshots those cycles captured, oldest first             *)
(*   undos:  consecutive undo() calls made since the last edit or redo     *)

InitHist ==
    /\ buffer = new
    /\ op = "init"
    /\ ret = "unit"
    /\ content = <<>>
    /\ cycles = 0
    /\ undos = 0
    /\ taken = <<>>
    /\ vim = vim_new
    /\ args = <<>>
    /\ leader_keys = 0
    /\ app = app_new

CycleChar(b) == IF current_line_len(b) % 2 = 0 THEN "a" ELSE " "

HistSave ==
    /\ ~buffer.panicked
    /\ op # "save_undo_snapshot"
    /\ current_line_len(buffer) < MaxCycles
    /\ buffer' = save_undo_snapshot(buffer)
    /\ op' = "save_undo_snapshot"
    /\ ret' = "unit"
    /\ IF op \in {"undo", "redo"}
       THEN cycles' = 0 /\ taken' = <<BufferSnapshot(buffer)>>
       ELSE cycles' = cycles /\ taken' = Append(taken, BufferSnapshot(buffer))
    /\ UNCHANGED <<content, undos, vim, args, leader_keys, app>>

HistEdit ==
    /\ ~buffer.panicked
    /\ op = "save_undo_snapshot"
    /\ buffer' = insert_char(buffer, CycleChar(buffer))
    /\ op' = "edit"
    /\ ret' = "unit"
    /\ cycles' = cycles + 1
    /\ undos' = 0
    /\ UNCHANGED <<content, taken, vim, args, leader_keys, app>>

HistUndo ==
    /\ ~buffer.panicked
    /\ op # "save_undo_snapshot"
    /\ undos <= MAX_UNDO_LEVELS
    /\ buffer' = undo(buffer).buffer
    /\ op' = "undo"
    /\ ret' = undo(buffer).ret
    /\ IF op = "redo"
       THEN cycles' = 0 /\ taken' = <<>>
       ELSE UNCHANGED <<cycles, taken>>
    /\ undos' = undos + 1
    /\ UNCHANGED <<content, vim, args, leader_keys, app>>

HistRedo ==
    /\ ~buffer.panicked
    /\ op # "save_undo_snapshot"
    /\ buffer' = redo(buffer).buffer
    /\ op' = "redo"
    /\ ret' = redo(buffer).ret
    /\ cycles' = 0
    /\ undos' = 0
    /\ taken' = <<>>
    /\ UNCHANGED <<content, vim, args, leader_keys, app>>

NextHist == HistSave \/ HistEdit \/ HistUndo \/ HistRedo

SpecHist == InitHist /\ [][NextHist]_vars

----------------------------------------------------------------------------
(* Serialisation scenario: a note's content is loaded with from_string and *)
(* written back with to_string.                                            *)

ContentChars == {"a", "\n", "\r"}

RECURSIVE Strings(_)
Strings(n) ==
    IF n = 0 THEN {<<>>}
    ELSE Strings(n - 1) \cup {Append(t, c) : t \in {u \in Strings(n - 1) : Len(u) = n - 1},
                                            c \in ContentChars}

InitIO ==
    /\ content \in Strings(MaxStr)
    /\ buffer = new
    /\ op = "init"
    /\ ret = "unit"
    /\ cycles = 0
    /\ undos = 0
    /\ taken = <<>>
    /\ vim = vim_new
    /\ args = <<>>
    /\ leader_keys = 0
    /\ app = app_new

Load ==
    /\ op = "init"
    /\ buffer' = from_string(content)
    /\ op' = "from_string"
    /\ UNCHANGED <<ret, content, cycles, undos, taken, vim, args, leader_keys, app>>

Store ==
    /\ op = "from_string"
    /\ ret' = to_string(buffer)
    /\ op' = "to_string"
    /\ UNCHANGED <<buffer, content, cycles, undos, taken, vim, args, leader_keys, app>>

NextIO == Load \/ Store

SpecIO == InitIO /\ [][NextIO]_vars

----------------------------------------------------------------------------
(* VimMode (molecules/editor/vim_mode.rs): the key handler and its pending *)
(* sub-states.  A key event is [code, modifiers]: the code of a Char key   *)
(* is its character, the code of a named key is its name; modifiers is a   *)
(* set.  A binding is the sequence of the characters of its string.  A     *)
(* VimAction is [kind, arg], arg being the motion of Delete and Yank, the  *)
(* character of InsertChar and "" otherwise.  A LeaderState is             *)
(* [tag, first], first being "" unless the tag is AwaitingSecond.          *)

SpecialKeys ==
    {"Esc", "Enter", "Backspace", "Delete", "Tab", "BackTab",
     "Left", "Right", "Up", "Down", "Home", "End"}

KeyEvents ==
    [code : SpecialKeys \cup
            {" ", "h", "j", "k", "l", "w", "b", "0", "$", "g", "G", "i", "a",
             "A", "I", "o", "O", "x", "d", "y", "p", "P", "u", "r", "v", "/",
             "f", "n", "N", "T", "q", "c", "s", "m", ">", "<", "z"},
     modifiers : {{}, {"CONTROL"}}]

AppModes == {"Normal", "Insert", "Visual", "Search", "Processing", "ConfirmDelete"}

keys ==
    [move_left |-> <<"h">>, move_down |-> <<"j">>, move_up |-> <<"k">>,
     move_right |-> <<"l">>, word_forward |-> <<"w">>, word_backward |-> <<"b">>,
     line_start |-> <<"0">>, line_end |-> <<"$">>, file_start |-> <<"g">>,
     file_end |-> <<"G">>, insert |-> <<"i">>, insert_append |-> <<"a">>,
     insert_line_start |-> <<"I">>, insert_line_end |-> <<"A">>,
     insert_line_below |-> <<"o">>, insert_line_above |-> <<"O">>,
     delete_char |-> <<"x">>, delete_line |-> <<"d">>, undo |-> <<"u">>,
     redo |-> <<"c", "t", "r", "l", "+", "r">>, yank |-> <<"y">>,
     paste_after |-> <<"p">>, paste_before |-> <<"P">>, visual_mode |-> <<"v">>,
     search |-> <<"/">>, search_next |-> <<"n">>, search_prev |-> <<"N">>,
     cycle_theme |-> <<"T">>, leader_process |-> <<"s">>, leader_list |-> <<"l">>,
     leader_new |-> <<"n", "n">>, leader_quit |-> <<"q">>]

Act(kind, arg) == [kind |-> kind, arg |-> arg]

(* key_matches as its callers use it: on a Char key, the character as a    *)
(* string equals the binding.                                              *)
key_matches(key, binding) == key.code \notin SpecialKeys /\ <<key.code>> = binding

key_event_matches(key, binding) ==
    IF Len(binding) >= 5 /\ SubSeq(binding, 1, 5) = <<"c", "t", "r", "l", "+">>
    THEN LET ch_str == SubSeq(binding, 6, Len(binding)) IN
         /\ Len(ch_str) = 1
         /\ key.code \notin SpecialKeys
         /\ key.code = ch_str[1]
         /\ "CONTROL" \in key.modifiers
    ELSE key.code \notin SpecialKeys /\ <<key.code>> = binding

(* The result of the first arm of a match whose pattern and guard hold:    *)
(* arms is the sequence of <<condition, result>> in source order.          *)
FirstArm(arms, otherwise) ==
    IF \E i \in 1..Len(arms) : arms[i][1]
    THEN arms[CHOOSE i \in 1..Len(arms) :
                  arms[i][1] /\ \A j \in 1..(i - 1) : ~arms[j][1]][2]
    ELSE otherwise

resolve_motion_NoLine(key) ==
    FirstArm(<<
        <<key_matches(key, keys.word_forward), "WordForward">>,
        <<key_matches(key, keys.word_backward), "WordBackward">>,
        <<key_matches(key, keys.line_end), "LineEnd">>,
        <<key_matches(key, keys.line_start), "LineStart">>,
        <<key_matches(key, keys.file_end), "FileEnd">>,
        <<key_matches(key, keys.file_start), "FileStart">> >>, "None")

resolve_motion(key) ==
    FirstArm(<<
        <<key_matches(key, keys.delete_line), "Line">>,
        <<key_matches(key, keys.yank), "Line">>,
        <<key_matches(key, keys.word_forward), "WordForward">>,
        <<key_matches(key, keys.word_backward), "WordBackward">>,
        <<key_matches(key, keys.line_end), "LineEnd">>,
        <<key_matches(key, keys.line_start), "LineStart">>,
        <<key_matches(key, keys.file_end), "FileEnd">>,
        <<key_matches(key, keys.file_start), "FileStart">> >>, "None")

(* Each handler returns [vim, ret]: the VimMode it leaves and its action.  *)
handle_normal_mode(v, key) ==
    LET inactive == [v EXCEPT !.leader_state = [tag |-> "Inactive", first |-> ""]]
        control == "CONTROL" \in key.modifiers
        first == v.leader_state.first
    IN
    IF v.leader_state.tag = "AwaitingSecond" THEN
        [vim |-> inactive,
         ret |-> IF first = "n" /\ key.code = "n" THEN Act("LeaderNew", "")
                 ELSE IF first = "m" /\ key.code = "c" THEN Act("InsertCheckbox", "")
                 ELSE Act("None", "")]
    ELSE IF v.leader_state.tag = "AwaitingFirst" THEN
        LET arm == FirstArm(<<
                <<key_matches(key, keys.leader_process), "LeaderProcess">>,
                <<key_matches(key, keys.leader_list), "LeaderList">>,
                <<key_matches(key, keys.leader_quit), "Quit">>,
                <<key.code = "d", "ToggleCheckbox">>,
                <<key.code = "h", "ToggleHints">>,
                <<key.code = "n", "AwaitingSecond">>,
                <<key.code = "m", "AwaitingSecond">> >>, "None")
        IN IF arm = "AwaitingSecond"
           THEN [vim |-> [v EXCEPT !.leader_state =
                                      [tag |-> "AwaitingSecond", first |-> key.code]],
                 ret |-> Act("None", "")]
           ELSE [vim |-> inactive, ret |-> Act(arm, "")]
    ELSE IF v.operator_state # "None" THEN
        LET operator == v.operator_state
            motion == resolve_motion(key)
        IN [vim |-> [v EXCEPT !.operator_state = "None"],
            ret |-> IF motion = "None" THEN Act("None", "")
                    ELSE IF operator \in {"Delete", "Yank"} THEN Act(operator, motion)
                    ELSE Act("unreachable!", motion)]
    ELSE
        LET arm == FirstArm(<<
                <<key.code = " ", "LeaderKey">>,
                <<key.code = "Left", "MoveLeft">>,
                <<key.code = "Right", "MoveRight">>,
                <<key.code = "Up", "MoveUp">>,
                <<key.code = "Down", "MoveDown">>,
                <<key.code = "Home", "MoveLineStart">>,
                <<key.code = "End", "MoveLineEnd">>,
                <<key_matches(key, keys.move_left), "MoveLeft">>,
                <<key_matches(key, keys.move_right), "MoveRight">>,
                <<key_matches(key, keys.move_up), "MoveUp">>,
                <<key_matches(key, keys.move_down), "MoveDown">>,
                <<key_matches(key, keys.word_forward), "MoveWordForward">>,
                <<key_matches(key, keys.word_backward), "MoveWordBackward">>,
                <<key_matches(key, keys.line_start), "MoveLineStart">>,
                <<key_matches(key, keys.line_end), "MoveLineEnd">>,
                <<key_matches(key, keys.file_end), "MoveFileEnd">>,
                <<key_matches(key, keys.file_start) /\ ~control, "MoveFileStart">>,
                <<key_matches(key, keys.insert), "InsertMode">>,
                <<key_matches(key, keys.insert_append), "InsertModeAppend">>,
                <<key_matches(key, keys.insert_line_end), "InsertModeLineEnd">>,
                <<key_matches(key, keys.insert_line_start), "InsertModeLineStart">>,
                <<key_matches(key, keys.insert_line_below), "InsertLineBelow">>,
                <<key_matches(key, keys.insert_line_above), "InsertLineAbove">>,
                <<key_matches(key, keys.delete_char), "DeleteChar">>,
                <<key_matches(key, keys.delete_line) /\ {} \subseteq key.modifiers,
                  "OperatorPending::Delete">>,
                <<key_matches(key, keys.yank), "OperatorPending::Yank">>,
                <<key_matches(key, keys.paste_after), "PasteAfter">>,
                <<key_matches(key, keys.paste_before), "PasteBefore">>,
                <<key_matches(key, keys.undo), "Undo">>,
                <<key_event_matches(key, keys.redo), "Redo">>,
                <<key_matches(key, keys.visual_mode), "EnterVisualMode">>,
                <<key_matches(key, keys.search), "Search">>,
                <<key.code = "f", "Search">>,
                <<key_matches(key, keys.search_next), "SearchNext">>,
                <<key_matches(key, keys.search_prev), "SearchPrev">>,
                <<key_matches(key, keys.cycle_theme), "CycleTheme">>,
                <<key.code = "l" /\ control, "ReloadBuffer">>,
                <<key.code = "g" /\ control, "ExternalEditor">>,
                <<key.code = "q" /\ control, "Quit">>,
                <<key.code = "c" /\ control, "Quit">>,
                <<key.code = "Esc", "ExitToNormal">>,
                <<key.code = ">", "Indent">>,
                <<key.code = "<", "Dedent">> >>, "None")
        IN IF arm = "LeaderKey"
           THEN [vim |-> [v EXCEPT !.leader_state =
                                      [tag |-> "AwaitingFirst", first |-> ""]],
                 ret |-> Act("LeaderKey", "")]
           ELSE IF arm = "OperatorPending::Delete"
           THEN [vim |-> [v EXCEPT !.operator_state = "Delete"], ret |-> Act("None", "")]
           ELSE IF arm = "OperatorPending::Yank"
           THEN [vim |-> [v EXCEPT !.operator_state = "Yank"], ret |-> Act("None", "")]
           ELSE [vim |-> v, ret |-> Act(arm, "")]

handle_insert_mode(v, key) ==
    [vim |-> v,
     ret |-> IF key.code \in SpecialKeys
             THEN Act(FirstArm(<<
                      <<key.code = "Esc", "ExitToNormal">>,
                      <<key.code = "Backspace", "Backspace">>,
                      <<key.code = "Delete", "DeleteChar">>,
                      <<key.code = "Enter", "InsertNewline">>,
                      <<key.code = "Left", "MoveLeft">>,
                      <<key.code = "Right", "MoveRight">>,
                      <<key.code = "Up", "MoveUp">>,
                      <<key.code = "Down", "MoveDown">>,
                      <<key.code = "Home", "MoveLineStart">>,
                      <<key.code = "End", "MoveLineEnd">>,
                      <<key.code = "Tab", "InsertTab">>,
                      <<key.code = "BackTab", "Dedent">> >>, "None"), "")
             ELSE IF "CONTROL" \in key.modifiers
             THEN Act(FirstArm(<<
                      <<key.code = "c", "ExitToNormal">>,
                      <<key.code = "g", "ExternalEditor">> >>, "None"), "")
             ELSE Act("InsertChar", key.code)]

handle_visual_mode(v, key) ==
    [vim |-> v,
     ret |-> Act(FirstArm(<<
                 <<key.code = "Esc", "ExitToNormal">>,
                 <<key.code = "Left", "MoveLeft">>,
                 <<key.code = "Right", "MoveRight">>,
                 <<key.code = "Up", "MoveUp">>,
                 <<key.code = "Down", "MoveDown">>,
                 <<key_matches(key, keys.move_left), "MoveLeft">>,
                 <<key_matches(key, keys.move_right), "MoveRight">>,
                 <<key_matches(key, keys.move_up), "MoveUp">>,
                 <<key_matches(key, keys.move_down), "MoveDown">>,
                 <<key_matches(key, keys.word_forward), "MoveWordForward">>,
                 <<key_matches(key, keys.word_backward), "MoveWordBackward">>,
                 <<key_matches(key, keys.line_start), "MoveLineStart">>,
                 <<key_matches(key, keys.line_end), "MoveLineEnd">>,
                 <<key_matches(key, keys.file_start), "MoveFileStart">>,
                 <<key_matches(key, keys.file_end), "MoveFileEnd">>,
                 <<key_matches(key, keys.delete_line), "VisualDelete">>,
                 <<key_matches(key, keys.yank), "VisualYank">>,
                 <<key.code = ">", "Indent">>,
                 <<key.code = "<", "Dedent">> >>, "None"), "")]

handle_search_mode(v, key) ==
    [vim |-> v,
     ret |-> IF key.code \in {"Esc", "Enter"} THEN Act("ExitToNormal", "")
             ELSE IF key.code = "Backspace" THEN Act("Backspace", "")
             ELSE IF key.code \notin SpecialKeys THEN Act("InsertChar", key.code)
             ELSE Act("None", "")]

handle_key_SkipsLeader(v, key, mode) ==
    IF mode = "Normal"
    THEN handle_normal_mode(
             [v EXCEPT !.leader_state = [tag |-> "Inactive", first |-> ""]], key)
    ELSE IF mode = "Insert" THEN handle_insert_mode(v, key)
    ELSE IF mode = "Visual" THEN handle_visual_mode(v, key)
    ELSE IF mode = "Search" THEN handle_search_mode(v, key)
    ELSE [vim |-> v, ret |-> Act("None", "")]

handle_key_KeepsAwaiting(v, key, mode) ==
    IF mode = "Normal"
    THEN IF /\ v.leader_state.tag = "AwaitingSecond"
            /\ handle_normal_mode(v, key).ret.kind = "None"
         THEN [vim |-> v, ret |-> Act("None", "")]
         ELSE handle_normal_mode(v, key)
    ELSE IF mode = "Insert" THEN handle_insert_mode(v, key)
    ELSE IF mode = "Visual" THEN handle_visual_mode(v, key)
    ELSE IF mode = "Search" THEN handle_search_mode(v, key)
    ELSE [vim |-> v, ret |-> Act("None", "")]

handle_key_LeaderBeforeOperator(v, key, mode) ==
    IF mode = "Normal"
    THEN IF v.leader_state.tag = "Inactive" /\ v.operator_state # "None" /\ key.code = " "
         THEN [vim |-> [v EXCEPT !.leader_state = [tag |-> "AwaitingFirst", first |-> ""]],
               ret |-> Act("LeaderKey", "")]
         ELSE handle_normal_mode(v, key)
    ELSE IF mode = "Insert" THEN handle_insert_mode(v, key)
    ELSE IF mode = "Visual" THEN handle_visual_mode(v, key)
    ELSE IF mode = "Search" THEN handle_search_mode(v, key)
    ELSE [vim |-> v, ret |-> Act("None", "")]

handle_key(v, key, mode) ==
    IF mode = "Normal" THEN handle_normal_mode(v, key)
    ELSE IF mode = "Insert" THEN handle_insert_mode(v, key)
    ELSE IF mode = "Visual" THEN handle_visual_mode(v, key)
    ELSE IF mode = "Search" THEN handle_search_mode(v, key)
    ELSE [vim |-> v, ret |-> Act("None", "")]

(* Key scenario: any key event in any mode, one handle_key call per step.  *)
(*   args:        the <<key, mode>> of the last call                       *)
(*   leader_keys: Normal-mode key events that found a leader sequence      *)
(*                pending, counted since the last one that found none      *)

InitVim ==
    /\ vim = vim_new
    /\ op = "init"
    /\ ret = Act("None", "")
    /\ args = <<>>
    /\ leader_keys = 0
    /\ app = app_new
    /\ buffer = new
    /\ content = <<>>
    /\ cycles = 0
    /\ undos = 0
    /\ taken = <<>>

HandleKey ==
    \E key \in KeyEvents, mode \in AppModes :
        /\ leader_keys < MaxLeaderKeys
        /\ vim' = handle_key(vim, key, mode).vim
        /\ ret' = handle_key(vim, key, mode).ret
        /\ op' = "handle_key"
        /\ args' = <<key, mode>>
        /\ leader_keys' = IF mode # "Normal" THEN leader_keys
                          ELSE IF vim.leader_state.tag # "Inactive" THEN leader_keys + 1
                          ELSE 0
        /\ UNCHANGED <<buffer, content, cycles, undos, taken, app>>

SpecVim == InitVim /\ [][HandleKey]_vars

----------------------------------------------------------------------------
(* Query scenario: the yank, delete and search operations applied once to  *)
(* a document and cursor drawn from every content of at most MaxDoc        *)
(* characters, one snapshot taken, with arguments inside the document.     *)
(*   args: the arguments of the call                                       *)
(*   ret:  the value it returned                                           *)

RECURSIVE DocStrings(_)
DocStrings(n) ==
    IF n = 0 THEN {<<>>}
    ELSE DocStrings(n - 1) \cup
            {Append(t, c) : t \in {u \in DocStrings(n - 1) : Len(u) = n - 1},
                            c \in Chars \cup {"A", "I"}}

InitQuery ==
    /\ buffer \in {save_undo_snapshot(set_cursor(from_string(s), p[1], p[2])) :
                       s \in DocStrings(MaxDoc), p \in (0..MaxDoc) \X (0..MaxDoc)}
    /\ op = "init"
    /\ ret = "unit"
    /\ args = <<>>
    /\ vim = vim_new
    /\ leader_keys = 0
    /\ app = app_new
    /\ content = <<>>
    /\ cycles = 0
    /\ undos = 0
    /\ taken = <<>>

(* One call on the drawn document: result is the [buffer, ret] it gives. *)
Apply(name, a, result) ==
    /\ op = "init"
    /\ op' = name
    /\ args' = a
    /\ buffer' = result.buffer
    /\ ret' = result.ret
    /\ UNCHANGED <<content, cycles, undos, taken, vim, leader_keys, app>>

NextQuery ==
    LET InDoc == {p \in (0..MaxDoc) \X (0..MaxDoc) :
                     p[1] < Len(buffer.lines) /\ p[2] <= Len(buffer.lines[p[1] + 1])}
        cursor == <<buffer.cursor_row, buffer.cursor_col>>
    IN
    \/ \E m \in Motions :
          Apply("apply_motion_delete", <<m>>, apply_motion_delete(buffer, m))
    \/ \E m \in Motions :
          Apply("apply_motion_yank", <<m>>, apply_motion_yank(buffer, m))
    \/ \E t \in VisualTypes, a \in InDoc :
          Apply("delete_selection", <<t, a, cursor>>, delete_selection(t, a, buffer, cursor))
    \/ \E t \in VisualTypes, a \in InDoc :
          Apply("yank_selection", <<t, a, cursor>>, yank_selection(t, a, buffer, cursor))
    \/ \E s \in InDoc, e \in InDoc :
          /\ PosLeq(s[1], s[2], e[1], e[2])
          /\ Apply("delete_range", <<s[1], s[2], e[1], e[2]>>,
                   delete_range(buffer, s[1], s[2], e[1], e[2]))
    \/ \E s \in InDoc, e \in InDoc :
          /\ PosLeq(s[1], s[2], e[1], e[2])
          /\ Apply("extract_range", <<s[1], s[2], e[1], e[2]>>,
                   extract_range(buffer, s[1], s[2], e[1], e[2]))
    \/ \E q \in Queries, r \in 0..(Len(buffer.lines) - 1), c \in 0..MaxDoc :
          Apply("find_next", <<q, r, c>>, find_next(buffer, q, r, c))
    \/ \E q \in Queries, r \in 0..(Len(buffer.lines) - 1), c \in 0..MaxDoc :
          Apply("find_prev", <<q, r, c>>, find_prev(buffer, q, r, c))
    \/ \E t \in Texts :
          Apply("paste_after_cursor", <<t>>,
                [buffer |-> paste_after_cursor(buffer, t), ret |-> "unit"])
    \/ \E t \in Texts :
          Apply("paste_before_cursor", <<t>>,
                [buffer |-> paste_before_cursor(buffer, t), ret |-> "unit"])

SpecQuery == InitQuery /\ [][NextQuery]_vars

----------------------------------------------------------------------------
(* Wrap scenario: the soft-wrap functions and the renderer's line          *)
(* splitter applied once to the lines of a document of at most MaxWrap     *)
(* characters, narrow, full-width and zero-width graphemes among them, at  *)
(* every width up to MaxWidth.                                             *)
(*   args: the arguments of the call                                       *)
(*   ret:  the value it returned                                           *)

InitWrap ==
    LET RECURSIVE WrapStrings(_)
        WrapStrings(n) ==
            IF n = 0 THEN {<<>>}
            ELSE WrapStrings(n - 1) \cup
                    {Append(t, c) : t \in {u \in WrapStrings(n - 1) : Len(u) = n - 1},
                                    c \in {"a", "W", "Z", "\n"}}
    IN  /\ buffer \in {from_string(s) : s \in WrapStrings(MaxWrap)}
        /\ op = "init"
        /\ ret = "unit"
        /\ args = <<>>
        /\ vim = vim_new
        /\ leader_keys = 0
        /\ app = app_new
        /\ content = <<>>
        /\ cycles = 0
        /\ undos = 0
        /\ taken = <<>>

NextWrap ==
    LET lines == buffer.lines
        RowsOfDoc == 0..(Len(lines) - 1)
        Widths == 0..MaxWidth
    IN
    \/ \E row \in RowsOfDoc, w \in Widths :
          Apply("display_rows_for_line", <<lines[row + 1], w>>,
                [buffer |-> buffer, ret |-> display_rows_for_line(lines[row + 1], w)])
    \/ \E row \in 0..Len(lines), col \in 0..MaxWrap, w \in Widths :
          Apply("visual_cursor_position", <<lines, row, col, w>>,
                [buffer |-> buffer, ret |-> visual_cursor_position(lines, row, col, w)])
    \/ \E row \in RowsOfDoc, cs \in 0..MaxWrap, ce \in 0..(MaxWrap + 1), w \in Widths :
          Apply("visual_positions_in_range", <<lines[row + 1], cs, ce, w>>,
                [buffer |-> buffer,
                 ret |-> visual_positions_in_range(lines[row + 1], cs, ce, w)])
    \/ \E row \in RowsOfDoc, w \in Widths :
          Apply("split_line_by_width", <<lines[row + 1], w>>,
                [buffer |-> buffer, ret |-> split_line_by_width(lines[row + 1], w)])

SpecWrap == InitWrap /\ [][NextWrap]_vars

----------------------------------------------------------------------------
(* Selection scenario: a selection of each kind, anchored anywhere in a    *)
(* document of at most MaxBlock characters with narrow and full-width      *)
(* graphemes, is rendered, yanked or deleted once; the cursor of the       *)
(* buffer is the live end of the selection.                                *)
(*   args: the selection kind, the anchor and the cursor                   *)
(*   ret:  the value the call returned                                     *)

InitBlock ==
    LET RECURSIVE BlockStrings(_)
        BlockStrings(n) ==
            IF n = 0 THEN {<<>>}
            ELSE BlockStrings(n - 1) \cup
                    {Append(t, c) : t \in {u \in BlockStrings(n - 1) : Len(u) = n - 1},
                                    c \in {"a", "W", "\n"}}
    IN  /\ buffer \in {set_cursor(from_string(s), p[1], p[2]) :
                           s \in BlockStrings(MaxBlock),
                           p \in (0..MaxBlock) \X (0..MaxBlock)}
        /\ op = "init"
        /\ ret = "unit"
        /\ args = <<>>
        /\ vim = vim_new
        /\ leader_keys = 0
        /\ app = app_new
        /\ content = <<>>
        /\ cycles = 0
        /\ undos = 0
        /\ taken = <<>>

NextBlock ==
    LET InDoc == {p \in (0..MaxBlock) \X (0..MaxBlock) :
                     p[1] < Len(buffer.lines) /\ p[2] <= Len(buffer.lines[p[1] + 1])}
        cursor == <<buffer.cursor_row, buffer.cursor_col>>
    IN
    \/ \E t \in VisualTypes, a \in InDoc :
          Apply("render_data", <<t, a, cursor>>,
                [buffer |-> buffer, ret |-> render_data(t, a, buffer, cursor)])
    \/ \E t \in VisualTypes, a \in InDoc :
          Apply("delete_selection", <<t, a, cursor>>, delete_selection(t, a, buffer, cursor))
    \/ \E t \in VisualTypes, a \in InDoc :
          Apply("yank_selection", <<t, a, cursor>>, yank_selection(t, a, buffer, cursor))

SpecBlock == InitBlock /\ [][NextBlock]_vars

----------------------------------------------------------------------------
(* Editing scenario: the driving loop hands the editor up to MaxEvents     *)
(* events, each a VimAction resolved from a key in Normal or Insert mode   *)
(* or a bracketed paste.                                                   *)
(*   op:     the handler that ran                                          *)
(*   args:   the action or pasted text it was given                        *)
(*   cycles: the events handled so far                                     *)

NormalActions ==
    {[kind |-> k, arg |-> ""] :
        k \in {"MoveLeft", "MoveRight", "MoveUp", "MoveDown", "MoveWordForward",
               "MoveWordBackward", "MoveLineStart", "MoveLineEnd", "MoveFileStart",
               "MoveFileEnd", "InsertMode", "InsertModeAppend", "InsertModeLineEnd",
               "InsertModeLineStart", "InsertLineBelow", "InsertLineAbove", "DeleteChar",
               "DeleteLine", "PasteAfter", "PasteBefore", "Undo", "Redo", "Indent",
               "Dedent", "InsertCheckbox", "ToggleCheckbox", "None"}}
    \cup {[kind |-> k, arg |-> m] : k \in {"Delete", "Yank"}, m \in Motions}

InsertActions ==
    {[kind |-> k, arg |-> ""] :
        k \in {"InsertTab", "Dedent", "InsertNewline", "Backspace", "DeleteChar",
               "MoveLeft", "MoveRight", "MoveUp", "MoveDown", "MoveLineStart",
               "MoveLineEnd", "ExitToNormal", "None"}}
    \cup {[kind |-> "InsertChar", arg |-> c] : c \in {"a", "-", " "}}

PastedTexts == {<<>>, <<"a">>, <<"a", "\n">>}

InitDispatch ==
    /\ buffer \in {from_string(s) : s \in {<<>>, <<"a", "\n", " ">>, <<"-", " ", "a">>}}
    /\ app = app_new
    /\ op = "init"
    /\ ret = "unit"
    /\ args = <<>>
    /\ cycles = 0
    /\ vim = vim_new
    /\ leader_keys = 0
    /\ content = <<>>
    /\ undos = 0
    /\ taken = <<>>

(* The Normal-mode actions that edit the document or open an Insert        *)
(* session; a paste edits only when the clipboard holds text.              *)
EditActions ==
    {"InsertMode", "InsertModeAppend", "InsertModeLineEnd", "InsertModeLineStart",
     "InsertLineBelow", "InsertLineAbove", "DeleteChar", "DeleteLine", "Delete",
     "Indent", "Dedent", "InsertCheckbox", "ToggleCheckbox"}

(* One event: result is the [app, buffer] the handler leaves; edit is      *)
(* "begin" when the event starts a logical edit, "undo" when it is an undo *)
(* or redo, "none" otherwise.  taken holds the lines and cursor from       *)
(* before the latest logical edit until an undo or redo uses them up.      *)
Dispatch(name, a, result, edit) ==
    /\ cycles < MaxEvents
    /\ ~buffer.panicked
    /\ cycles' = cycles + 1
    /\ op' = name
    /\ args' = a
    /\ app' = result.app
    /\ buffer' = result.buffer
    /\ taken' = CASE edit = "begin" -> <<BufferSnapshot(buffer)>>
                  [] edit = "undo" -> <<>>
                  [] OTHER -> taken
    /\ UNCHANGED <<ret, content, undos, vim, leader_keys>>

(* The clipboard and the tab width are drawn only for the actions that     *)
(* read them.                                                              *)
NextDispatch ==
    \/ \E action \in NormalActions, clipboard \in PastedTexts, w \in TabWidths :
          /\ app.mode = "Normal"
          /\ action.kind \notin {"PasteAfter", "PasteBefore"} => clipboard = <<>>
          /\ action.kind \notin {"Indent", "Dedent"} => w = 1
          /\ Dispatch("handle_editor_normal", <<action, clipboard>>,
                      handle_editor_normal(app, buffer, action, clipboard, w),
                      IF action.kind \in EditActions \/ clipboard # <<>> THEN "begin"
                      ELSE IF action.kind \in {"Undo", "Redo"} THEN "undo"
                      ELSE "none")
    \/ \E action \in InsertActions, w \in TabWidths :
          /\ app.mode = "Insert"
          /\ action.kind \notin {"InsertTab", "Dedent"} => w = 1
          /\ Dispatch("handle_insert_action", <<action>>,
                      handle_insert_action(app, buffer, action, w), "none")
    \/ \E text \in PastedTexts :
          Dispatch("handle_paste", <<text>>, handle_paste(app, buffer, text),
                   IF app.mode = "Insert" \/ text # <<>> THEN "begin" ELSE "none")

SpecDispatch == InitDispatch /\ [][NextDispatch]_vars

----------------------------------------------------------------------------
(* History scenario of single calls: every TextBuffer operation called     *)
(* once on a document whose history already holds snapshots (one snapshot  *)
(* taken, or two taken, a grapheme typed and the edit undone, which leaves *)
(* one entry in each stack).                                               *)
(*   op:   the operation called                                            *)
(*   args: its arguments                                                   *)
(*   ret:  the value it returned, "unit" when it returns nothing           *)

FrameContents ==
    {<<>>, <<"a", "\n", " ">>, <<"a", " ", "a">>, <<"-", " ", "[", " ", "]", " ", "a">>}

InitFrame ==
    /\ buffer \in
          UNION {LET b == set_cursor(from_string(s), p[1], p[2])
                     twice == save_undo_snapshot(save_undo_snapshot(b))
                 IN  {save_undo_snapshot(b), undo(insert_char(twice, "a")).buffer} :
                    s \in FrameContents, p \in (0..1) \X (0..MaxFrame)}
    /\ op = "init"
    /\ ret = "unit"
    /\ args = <<>>
    /\ vim = vim_new
    /\ leader_keys = 0
    /\ app = app_new
    /\ content = <<>>
    /\ cycles = 0
    /\ undos = 0
    /\ taken = <<>>

NextFrame ==
    LET Unit(b2) == [buffer |-> b2, ret |-> "unit"]
        Pos == (0..1) \X (0..MaxFrame)
    IN
    \/ \E p \in Pos : Apply("set_cursor", p, Unit(set_cursor(buffer, p[1], p[2])))
    \/ \E c \in Chars : Apply("insert_char", <<c>>, Unit(insert_char(buffer, c)))
    \/ \E w \in TabWidths : Apply("insert_tab", <<w>>, Unit(insert_tab(buffer, w)))
    \/ \E t \in Texts : Apply("insert_text", <<t>>, Unit(insert_text(buffer, t)))
    \/ \E w \in TabWidths : Apply("indent_line", <<w>>, Unit(indent_line(buffer, w)))
    \/ \E w \in TabWidths : Apply("dedent_line", <<w>>, Unit(dedent_line(buffer, w)))
    \/ \E sr \in 0..1, er \in 0..1, w \in TabWidths :
          Apply("indent_lines", <<sr, er, w>>, Unit(indent_lines(buffer, sr, er, w)))
    \/ \E sr \in 0..1, er \in 0..1, w \in TabWidths :
          Apply("dedent_lines", <<sr, er, w>>, Unit(dedent_lines(buffer, sr, er, w)))
    \/ Apply("insert_newline", <<>>, Unit(insert_newline(buffer)))
    \/ Apply("backspace", <<>>, Unit(backspace(buffer)))
    \/ Apply("delete_char", <<>>, Unit(delete_char(buffer)))
    \/ Apply("move_left", <<>>, Unit(move_left(buffer)))
    \/ Apply("move_right", <<>>, Unit(move_right(buffer)))
    \/ Apply("move_up", <<>>, Unit(move_up(buffer)))
    \/ Apply("move_down", <<>>, Unit(move_down(buffer)))
    \/ Apply("move_to_line_start", <<>>, Unit(move_to_line_start(buffer)))
    \/ Apply("move_to_line_end", <<>>, Unit(move_to_line_end(buffer)))
    \/ Apply("move_to_first_line", <<>>, Unit(move_to_first_line(buffer)))
    \/ Apply("move_to_last_line", <<>>, Unit(move_to_last_line(buffer)))
    \/ Apply("move_word_forward", <<>>, Unit(move_word_forward(buffer)))
    \/ Apply("move_word_backward", <<>>, Unit(move_word_backward(buffer)))
    \/ Apply("delete_line", <<>>, Unit(delete_line(buffer)))
    \/ Apply("insert_line_below", <<>>, Unit(insert_line_below(buffer)))
    \/ Apply("insert_line_above", <<>>, Unit(insert_line_above(buffer)))
    \/ \E prefix \in {<<>>, <<"-", " ">>} :
          Apply("insert_line_below_with_prefix", <<prefix>>,
                Unit(insert_line_below_with_prefix(buffer, prefix)))
    \/ \E prefix \in {<<>>, <<"-", " ">>} :
          Apply("insert_newline_with_prefix", <<prefix>>,
                Unit(insert_newline_with_prefix(buffer, prefix)))
    \/ Apply("clear_current_line", <<>>, Unit(clear_current_line(buffer)))
    \/ Apply("insert_checkbox", <<>>, Unit(insert_checkbox(buffer)))
    \/ Apply("toggle_checkbox", <<>>, Unit(toggle_checkbox(buffer)))
    \/ Apply("delete_line_and_return", <<>>, delete_line_and_return(buffer))
    \/ Apply("extract_line", <<>>, extract_line(buffer))
    \/ \E m \in Motions :
          Apply("apply_motion_delete", <<m>>, apply_motion_delete(buffer, m))
    \/ \E m \in Motions :
          Apply("apply_motion_yank", <<m>>, apply_motion_yank(buffer, m))
    \/ \E s \in Pos, e \in Pos :
          Apply("delete_range", <<s[1], s[2], e[1], e[2]>>,
                delete_range(buffer, s[1], s[2], e[1], e[2]))
    \/ \E s \in Pos, e \in Pos :
          Apply("extract_range", <<s[1], s[2], e[1], e[2]>>,
                extract_range(buffer, s[1], s[2], e[1], e[2]))
    \/ \E t \in Texts :
          Apply("paste_after_cursor", <<t>>, Unit(paste_after_cursor(buffer, t)))
    \/ \E t \in Texts :
          Apply("paste_before_cursor", <<t>>, Unit(paste_before_cursor(buffer, t)))
    \/ \E t \in Texts :
          Apply("paste_line_below", <<t>>, Unit(paste_line_below(buffer, t)))
    \/ \E t \in Texts :
          Apply("paste_line_above", <<t>>, Unit(paste_line_above(buffer, t)))
    \/ \E q \in Queries, p \in Pos :
          Apply("find_next", <<q, p[1], p[2]>>, find_next(buffer, q, p[1], p[2]))
    \/ \E q \in Queries, p \in Pos :
          Apply("find_prev", <<q, p[1], p[2]>>, find_prev(buffer, q, p[1], p[2]))
    \/ Apply("save_undo_snapshot", <<>>, Unit(save_undo_snapshot(buffer)))
    \/ Apply("undo", <<>>, undo(buffer))
    \/ Apply("redo", <<>>, redo(buffer))

SpecFrame == InitFrame /\ [][NextFrame]_vars

----------------------------------------------------------------------------
(* List scenario: a one-line document holding a list item (any of the      *)
(* markers at two indentations, with content) or any short string over the *)
(* marker characters, the cursor at any column; then i, A or o in Normal   *)
(* mode and Enter or Esc in Insert mode, up to MaxEvents events.           *)
(*   op, args, cycles: as in the editing scenario                          *)

InitList ==
    LET Alphabet == {"-", " ", "1", ".", "a"}
        Short == {<<>>} \cup {<<c>> : c \in Alphabet}
                    \cup {<<c, d>> : c \in Alphabet, d \in Alphabet}
                    \cup {<<c, d, e>> : c \in Alphabet, d \in Alphabet, e \in Alphabet}
        Markers == {<<"-", " ">>, <<"-", " ", "[", " ", "]", " ">>,
                    <<"-", " ", "[", "x", "]", " ">>, <<"-", " ", "[", "X", "]", " ">>,
                    <<"1", ".", " ">>, <<"9", ")", " ">>, <<"1", "9", ".", " ">>,
                    <<"9", "9", ")", " ">>}
        Items == {indent \o marker \o item :
                     indent \in {<<>>, <<" ", " ">>}, marker \in Markers,
                     item \in {<<"a">>, <<" ", "a">>}}
    IN  /\ buffer \in {set_cursor(from_string(line), 0, col) :
                           line \in Short \cup Items, col \in 0..MaxItem}
        /\ app = app_new
        /\ op = "init"
        /\ ret = "unit"
        /\ args = <<>>
        /\ cycles = 0
        /\ vim = vim_new
        /\ leader_keys = 0
        /\ content = <<>>
        /\ undos = 0
        /\ taken = <<>>

NextList ==
    \/ \E kind \in {"InsertMode", "InsertModeLineEnd", "InsertLineBelow"} :
          /\ app.mode = "Normal"
          /\ Dispatch("handle_editor_normal", <<Act(kind, ""), <<>> >>,
                      handle_editor_normal(app, buffer, Act(kind, ""), <<>>, 1), "begin")
    \/ \E kind \in {"InsertNewline", "ExitToNormal"} :
          /\ app.mode = "Insert"
          /\ Dispatch("handle_insert_action", <<Act(kind, "")>>,
                      handle_insert_action(app, buffer, Act(kind, ""), 1), "none")

SpecList == InitList /\ [][NextList]_vars

----------------------------------------------------------------------------
(* Clipboard scenario: on a document of the selection scenario, one yank   *)
(* or delete (d or y with a motion in Normal mode, or d or y on a          *)
(* selection in Visual mode), then one p or P of the text it copied; p and *)
(* P go through the Normal-mode handler like d and y with a motion.        *)
(*   op:   the handler that ran, "paste" for the p or P                    *)
(*   args: the action, with the selection kind and anchor in Visual mode   *)
(*   ret:  the text on the system clipboard                                *)

NextYank ==
    LET Event(name, a, h, text) ==
            /\ ~buffer.panicked
            /\ op' = name
            /\ args' = a
            /\ app' = h.app
            /\ buffer' = h.buffer
            /\ ret' = text
            /\ UNCHANGED <<content, cycles, undos, taken, vim, leader_keys>>
        Selection(a, h) ==
            Event("handle_visual_action", a, h,
                  IF h.clipboard = <<>> THEN <<>> ELSE h.clipboard[1])
    IN
    \/ \E action \in {Act(kind, m) : kind \in {"Delete", "Yank"}, m \in Motions}
                        \cup {Act("PasteAfter", ""), Act("PasteBefore", "")} :
          /\ IF action.kind \in {"Delete", "Yank"} THEN op = "init"
              ELSE op \in {"handle_editor_normal", "handle_visual_action"}
          /\ Event(IF op = "init" THEN "handle_editor_normal" ELSE "paste",
                   <<action>> \o args,
                   handle_editor_normal(app, buffer, action,
                                        IF op = "init" THEN <<>> ELSE ret, 1),
                   CASE action.kind = "Delete" ->
                           apply_motion_delete(save_undo_snapshot(buffer), action.arg).ret[1]
                     [] action.kind = "Yank" -> apply_motion_yank(buffer, action.arg).ret[1]
                     [] OTHER -> ret)
    \/ \E kind \in {"VisualDelete", "VisualYank"}, t \in VisualTypes,
           row \in 0..MaxBlock, col \in 0..MaxBlock :
          /\ op = "init"
          /\ row < Len(buffer.lines)
          /\ col <= Len(buffer.lines[row + 1])
          /\ Selection(<<Act(kind, ""), t, <<row, col>>>>,
                       handle_visual_action(app, buffer, Act(kind, ""), t, <<row, col>>))

SpecYank == InitBlock /\ [][NextYank]_vars

----------------------------------------------------------------------------
(* Processing scenario: the event loop of run_app on one note "n", with    *)
(* the file watcher and another writer of the note's file beside it.       *)
(*   app:     the fields of App the loop reads: mode, view, dirty,         *)
(*            current_note (<<>> or <<id>>), pending_external_reload       *)
(*            (<<>> or <<id>>), processing_blocks, processing_index, and   *)
(*            saved_recently: the file_change_tracker holds a save of "n"  *)
(*            younger than the suppression window                          *)
(*   content: the note's file, <<>> when it does not exist and <<text>>    *)
(*            when it does                                                 *)
(*   taken:   the watcher's channel, oldest event first                    *)
(*   cycles:  the number of key, paste and external events so far          *)
(*   op:      the step taken last; args: its input                         *)

(* Blocks are separated by blank lines; each carries the byte range        *)
(* [start, end) it was found at.                                           *)
parse_smart_blocks(text) ==
    LET len == Len(text)
        RECURSIVE SkipSpace(_), BlockEnd(_), TrimEnd(_), Blocks(_)
        SkipSpace(pos) ==
            IF pos < len /\ text[pos + 1] \in {"\n", " ", "\t", "\r"}
            THEN SkipSpace(pos + 1) ELSE pos
        BlockEnd(pos) ==
            IF pos >= len THEN len
            ELSE IF pos + 1 < len /\ text[pos + 1] = "\n" /\ text[pos + 2] = "\n" THEN pos
            ELSE BlockEnd(pos + 1)
        TrimEnd(t) ==
            IF t # <<>> /\ t[Len(t)] \in {"\n", " ", "\t", "\r"}
            THEN TrimEnd(Take(t, Len(t) - 1)) ELSE t
        Blocks(pos) ==
            LET block_start == SkipSpace(pos)
                block_end == BlockEnd(block_start)
                next == IF block_end < len
                        THEN IF block_end + 1 < len /\ text[block_end + 2] = "\n"
                             THEN block_end + 2 ELSE block_end + 1
                        ELSE block_end
            IN  IF pos >= len \/ block_start >= len THEN <<>>
                ELSE <<[content |-> TrimEnd(Slice(text, block_start, block_end)),
                        status |-> "Pending",
                        original_range |-> <<block_start, block_end>>]>> \o Blocks(next)
    IN  Blocks(0)

(* outcome is what the destination application answers for a block that    *)
(* is sent to it.                                                          *)
dispatch_block(block, outcome) ==
    LET trimmed == block.content
    IN  IF /\ starts_with(trimmed, <<"<", "!", "-", "-">>)
           /\ Len(trimmed) >= 3
           /\ Drop(trimmed, Len(trimmed) - 3) = <<"-", "-", ">">>
        THEN "Skipped" ELSE outcome

start_processing(a, b) ==
    LET blocks == parse_smart_blocks(to_string(b))
    IN  IF a.current_note = <<>> \/ blocks = <<>> THEN a
        ELSE [a EXCEPT !.processing_blocks = blocks, !.processing_index = 0,
                       !.mode = "Processing"]

(* Returns [app, ret]. *)
process_next_block(a, outcome) ==
    IF a.processing_index < Len(a.processing_blocks)
    THEN [app |-> [a EXCEPT
                     !.processing_blocks[a.processing_index + 1].status =
                         dispatch_block(a.processing_blocks[a.processing_index + 1], outcome),
                     !.processing_index = @ + 1],
          ret |-> TRUE]
    ELSE [app |-> a, ret |-> FALSE]

(* Returns [app, buffer]; slicing the text outside its length panics. *)
finish_processing(a, b) ==
    LET CommentOpen == <<"<", "!", "-", "-", " ">>
        CommentClose == <<" ", "-", "-", ">">>
        sent == SelectSeq(a.processing_blocks, LAMBDA blk : blk.status = "Sent")
        RECURSIVE Descending(_), Wrap(_, _)
        Descending(ranges) ==
            IF ranges = <<>> THEN <<>>
            ELSE LET k == CHOOSE i \in 1..Len(ranges) :
                              /\ \A j \in 1..Len(ranges) : ranges[j][1] <= ranges[i][1]
                              /\ \A j \in 1..(i - 1) : ranges[j][1] < ranges[i][1]
                 IN  <<ranges[k]>> \o Descending(VecRemove(ranges, k - 1))
        Wrap(text, ranges) ==
            IF ranges = <<>> THEN <<text>>
            ELSE LET start == ranges[1][1]
                     end == ranges[1][2]
                 IN  IF end > Len(text) \/ start > end THEN <<>>
                     ELSE Wrap(Take(text, start) \o CommentOpen \o Slice(text, start, end)
                                 \o CommentClose \o Drop(text, end),
                               Tail(ranges))
        sent_ranges == Descending([i \in 1..Len(sent) |-> sent[i].original_range])
        wrapped == Wrap(to_string(b), sent_ranges)
        done == [a EXCEPT !.processing_blocks = <<>>, !.processing_index = 0,
                          !.mode = "Normal"]
    IN  IF sent_ranges = <<>> THEN [app |-> done, buffer |-> b]
        ELSE IF wrapped = <<>> THEN [app |-> a, buffer |-> Panic(b)]
        ELSE [app |-> [done EXCEPT !.dirty = TRUE], buffer |-> from_string(wrapped[1])]

(* Returns [app, disk]. *)
save_current_note(a, b, disk) ==
    IF a.current_note = <<>> THEN [app |-> a, disk |-> disk]
    ELSE [app |-> [a EXCEPT !.saved_recently = TRUE, !.dirty = FALSE],
          disk |-> <<to_string(b)>>]

(* Returns [app, buffer]; the note cannot be loaded when its file is gone. *)
reload_current_note_from_disk(a, b, disk) ==
    IF a.current_note = <<>> \/ disk = <<>> THEN [app |-> a, buffer |-> b]
    ELSE IF disk[1] = to_string(b)
    THEN [app |-> [a EXCEPT !.pending_external_reload = <<>>], buffer |-> b]
    ELSE [app |-> [a EXCEPT !.dirty = FALSE, !.pending_external_reload = <<>>],
          buffer |-> set_cursor(from_string(disk[1]), b.cursor_row, b.cursor_col)]

classify_event(event, saved_recently, known_ids) ==
    CASE event.kind = "Modified" ->
            IF saved_recently /\ event.id = "n" THEN "Suppressed"
            ELSE IF event.id \in known_ids THEN "ReloadNote" ELSE "NewNote"
      [] OTHER ->
            IF saved_recently /\ event.id = "n" THEN "Suppressed" ELSE "DeletedNote"

(* Returns [app, buffer].  refresh_lists reads the notes that exist. *)
handle_file_event(a, b, disk, event) ==
    LET action == classify_event(event, a.saved_recently, a.known_ids)
        is_current == a.current_note = <<event.id>>
        listed == [a EXCEPT !.known_ids = {"m"} \cup (IF disk = <<>> THEN {} ELSE {"n"})]
    IN  CASE action = "ReloadNote" /\ is_current /\ a.dirty ->
                [app |-> [a EXCEPT !.pending_external_reload = <<event.id>>], buffer |-> b]
          [] action = "ReloadNote" /\ is_current /\ ~a.dirty ->
                reload_current_note_from_disk(a, b, disk)
          [] action = "DeletedNote" /\ is_current ->
                [app |-> [listed EXCEPT !.current_note = <<>>, !.dirty = FALSE,
                                        !.view = "DraftList"],
                 buffer |-> new]
          [] action \in {"NewNote", "DeletedNote"} -> [app |-> listed, buffer |-> b]
          [] OTHER -> [app |-> a, buffer |-> b]

InitProc ==
    /\ \E text \in {<<"a">>, <<"a", "\n", "\n", "a">>} :
          /\ buffer = from_string(text)
          /\ content = <<text>>
    /\ app = [mode |-> "Normal", last_yank_linewise |-> FALSE, view |-> "Editor",
              dirty |-> FALSE, current_note |-> <<"n">>, pending_external_reload |-> <<>>,
              processing_blocks |-> <<>>, processing_index |-> 0,
              saved_recently |-> FALSE, known_ids |-> {"n", "m"}]
    /\ op = "init"
    /\ ret = "unit"
    /\ cycles = 0
    /\ undos = 0
    /\ taken = <<>>
    /\ vim = vim_new
    /\ args = <<>>
    /\ leader_keys = 0

(* The actions a key gives in each mode; esc tells the Esc key. *)
ProcKeys(mode) ==
    CASE mode = "Normal" ->
            {[esc |-> TRUE, action |-> Act("None", "")]}
            \cup {[esc |-> FALSE, action |-> Act(kind, "")] :
                     kind \in {"InsertMode", "DeleteChar", "LeaderProcess", "ReloadBuffer"}}
      [] mode = "Insert" ->
            {[esc |-> TRUE, action |-> Act("ExitToNormal", "")],
             [esc |-> FALSE, action |-> Act("InsertChar", "a")],
             [esc |-> FALSE, action |-> Act("InsertNewline", "")]}
      [] OTHER -> {[esc |-> e, action |-> Act("None", "")] : e \in BOOLEAN}

(* run_app, the processing tick: the next block is dispatched, or         *)
(* processing is finished when none is left.  outcome is the answer of the *)
(* destination application.                                                *)
Tick ==
    \E outcome \in {"Sent", "Skipped", "Failed"} :
       /\ app.mode = "Processing"
       /\ ~buffer.panicked
       /\ IF process_next_block(app, outcome).ret
          THEN /\ app' = process_next_block(app, outcome).app
               /\ buffer' = buffer
               /\ op' = "process_next_block"
          ELSE /\ app' = finish_processing(app, buffer).app
               /\ buffer' = finish_processing(app, buffer).buffer
               /\ op' = "finish_processing"
       /\ args' = <<[outcome |-> outcome]>>
       /\ UNCHANGED <<ret, content, cycles, undos, taken, vim, leader_keys>>

NextProc ==
    LET Step(name, a, h, disk, channel, n) ==
            /\ ~buffer.panicked
            /\ op' = name
            /\ args' = a
            /\ app' = h.app
            /\ buffer' = h.buffer
            /\ content' = disk
            /\ taken' = channel
            /\ cycles' = cycles + n
            /\ UNCHANGED <<ret, undos, vim, leader_keys>>
        Dirty(h, dirty) == [app |-> [h.app EXCEPT !.dirty = @ \/ dirty], buffer |-> h.buffer]
        Same == [app |-> app, buffer |-> buffer]
    IN
    (* run_app, Event::Key *)
    \/ \E key \in ProcKeys(app.mode) :
          /\ cycles < MaxSteps
          /\ app.view = "Editor"
          /\ Step("key", <<key>>,
                  CASE app.mode = "Processing" ->
                          IF key.esc THEN finish_processing(app, buffer) ELSE Same
                    [] app.mode = "Insert" ->
                          Dirty(handle_insert_action(app, buffer, key.action, 1),
                                key.action.kind \in {"InsertChar", "InsertNewline"})
                    [] key.action.kind = "LeaderProcess" ->
                          [app |-> start_processing(app, buffer), buffer |-> buffer]
                    [] key.action.kind = "ReloadBuffer" ->
                          reload_current_note_from_disk(app, buffer, content)
                    [] OTHER ->
                          Dirty(handle_editor_normal(app, buffer, key.action, <<>>, 1),
                                key.action.kind = "DeleteChar"),
                  content, taken, 1)
    (* run_app, Event::Paste *)
    \/ \E text \in {<<"a">>} :
          /\ cycles < MaxSteps
          /\ Step("paste", <<[text |-> text]>>,
                  Dirty(handle_paste(app, buffer, text), app.mode \in {"Insert", "Normal"}),
                  content, taken, 1)
    (* run_app, the watcher's events *)
    \/ /\ taken # <<>>
       /\ Step("handle_file_event", <<Head(taken)>>,
               handle_file_event(app, buffer, content, Head(taken)), content, Tail(taken), 0)
    \/ Tick
    (* run_app, auto_save_if_needed once the interval has passed; the      *)
    (* watcher reports the write                                           *)
    \/ /\ app.dirty
       /\ app.current_note # <<>>
       /\ Len(taken) < MaxChannel
       /\ Step("save_current_note", <<>>,
               [app |-> save_current_note(app, buffer, content).app, buffer |-> buffer],
               save_current_note(app, buffer, content).disk,
               Append(taken, [kind |-> "Modified", id |-> "n"]), 0)
    (* the suppression window of the last save runs out *)
    \/ /\ app.saved_recently
       /\ Step("elapse", <<>>, [app |-> [app EXCEPT !.saved_recently = FALSE],
                                buffer |-> buffer], content, taken, 0)
    (* another program writes or removes a note's file; the watcher        *)
    (* reports it                                                          *)
    \/ \E id \in {"n", "m"}, text \in {<<>>, <<"a">>, <<"b", "\n", "\n", "b">>} :
          /\ cycles < MaxSteps
          /\ Len(taken) < MaxChannel
          /\ Step("write", <<[id |-> id, text |-> text]>>, Same,
                  IF id = "n" THEN <<text>> ELSE content,
                  Append(taken, [kind |-> "Modified", id |-> id]), 1)
    \/ \E id \in {"n", "m"} :
          /\ cycles < MaxSteps
          /\ Len(taken) < MaxChannel
          /\ Step("remove", <<[id |-> id]>>, Same,
                  IF id = "n" THEN <<>> ELSE content,
                  Append(taken, [kind |-> "Removed", id |-> id]), 1)

SpecProc == InitProc /\ [][NextProc]_vars

----------------------------------------------------------------------------
(* Properties *)

CursorValid(b) ==
    /\ b.cursor_row < Len(b.lines)
    /\ b.cursor_col <= Len(b.lines[b.cursor_row + 1])

(* C1: in every state reachable through the public mutators, called with   *)
(* arbitrary arguments, the cursor row is below the line count and the     *)
(* cursor column is at most the grapheme count of the cursor's line.       *)
C1_CursorInBounds == CursorValid(buffer)

ArgumentOps ==
    {"set_cursor", "delete_range", "extract_range", "find_next", "find_prev",
     "indent_lines", "dedent_lines"}

(* C2: set_cursor, delete_range, extract_range, find_next, find_prev,      *)
(* indent_lines and dedent_lines return normally for any row, column or    *)
(* range arguments: none of them panics.                                   *)
C2_NoPanicOnArguments == ~(op \in ArgumentOps /\ buffer.panicked)

(* C3: the undo stack never holds more than 50 snapshots; after 50 or more *)
(* snapshot + edit cycles with no undo in between, the first 50            *)
(* consecutive undo() calls return true and the 51st returns false.        *)
C3_UndoLimit ==
    /\ Len(buffer.undo_stack) <= MAX_UNDO_LEVELS
    /\ (op = "undo" /\ cycles >= MAX_UNDO_LEVELS /\ undos >= 1)
          => (ret = (undos <= MAX_UNDO_LEVELS))

C3_Witness ==
    /\ op = "undo"
    /\ cycles > MAX_UNDO_LEVELS
    /\ undos = MAX_UNDO_LEVELS + 1
    /\ ret = FALSE
    /\ Len(buffer.redo_stack) = MAX_UNDO_LEVELS

(* The single-call edits a caller can make on b. *)
Edits(b) ==
    {insert_char(b, c) : c \in Chars}
        \cup {insert_newline(b), backspace(b), delete_char(b), delete_line(b),
              insert_line_below(b), insert_line_above(b)}

(* C4, as stated: after a successful undo() followed by any new edit,      *)
(* redo() returns false and leaves the buffer as the edit left it.         *)
C4_EditInvalidatesRedo ==
    (op = "undo" /\ ret = TRUE) =>
        \A e \in Edits(buffer) : redo(e).ret = FALSE /\ redo(e).buffer = e

(* C4, amended: after a successful undo() followed by save_undo_snapshot() *)
(* and any new edit, redo() returns false and leaves the buffer as the     *)
(* edit left it.                                                           *)
C4_SnapshotEditInvalidatesRedo ==
    (op = "undo" /\ ret = TRUE) =>
        \A e \in Edits(save_undo_snapshot(buffer)) :
            redo(e).ret = FALSE /\ redo(e).buffer = e

C4_Witness ==
    /\ op = "undo"
    /\ ret = TRUE
    /\ buffer.redo_stack # <<>>
    /\ buffer.undo_stack # <<>>

(* C5: right after any save_undo_snapshot(), redo() returns false and      *)
(* changes nothing.                                                        *)
C5_SnapshotClearsRedo ==
    op = "save_undo_snapshot" =>
        redo(buffer).ret = FALSE /\ redo(buffer).buffer = buffer

(* A snapshot taken after undo() calls of which the last one succeeded:    *)
(* the redo stack held a snapshot when save_undo_snapshot() was called.    *)
C5_Witness ==
    /\ op = "save_undo_snapshot"
    /\ undos >= 1
    /\ Len(buffer.undo_stack) >= 2
    /\ buffer.redo_stack = <<>>

SameText(b1, b2) ==
    /\ b1.lines = b2.lines
    /\ b1.cursor_row = b2.cursor_row
    /\ b1.cursor_col = b2.cursor_col

MovesOne(from1, to1, from2, to2) ==
    /\ Len(from2) = Len(from1) - 1
    /\ Len(to2) = Len(to1) + 1

(* C6: when undo() returns true an immediate redo() returns true and       *)
(* restores the lines and cursor from before the undo; when redo() returns *)
(* true an immediate undo() restores the lines and cursor from before the  *)
(* redo; each successful call moves exactly one snapshot between the       *)
(* stacks.                                                                 *)
C6_UndoRedoMirror ==
    [][/\ (op' = "undo" /\ ret' = TRUE) =>
              /\ redo(buffer').ret = TRUE
              /\ SameText(redo(buffer').buffer, buffer)
              /\ MovesOne(buffer.undo_stack, buffer.redo_stack,
                          buffer'.undo_stack, buffer'.redo_stack)
       /\ (op' = "redo" /\ ret' = TRUE) =>
              /\ undo(buffer').ret = TRUE
              /\ SameText(undo(buffer').buffer, buffer)
              /\ MovesOne(buffer.redo_stack, buffer.undo_stack,
                          buffer'.redo_stack, buffer'.undo_stack)]_vars

C6_Witness ==
    /\ op = "redo"
    /\ ret = TRUE
    /\ buffer.redo_stack # <<>>
    /\ Len(buffer.undo_stack) >= 2

(* C7: after n > 50 snapshot + edit cycles, the k-th consecutive undo()    *)
(* (1 <= k <= 50) restores the lines and cursor captured by snapshot       *)
(* number n - k + 1, and no undo() reaches the first n - 50 snapshots.     *)
C7_OldestEvictedFirst ==
    (op = "undo" /\ cycles > MAX_UNDO_LEVELS /\ undos >= 1) =>
        /\ undos <= MAX_UNDO_LEVELS =>
              /\ ret = TRUE
              /\ BufferSnapshot(buffer) = taken[cycles - undos + 1]
        /\ \A i \in 1..(cycles - MAX_UNDO_LEVELS) : taken[i] # BufferSnapshot(buffer)

C7_Witness ==
    /\ op = "undo"
    /\ cycles >= MAX_UNDO_LEVELS + 2
    /\ undos = MAX_UNDO_LEVELS
    /\ ret = TRUE
    /\ BufferSnapshot(buffer) = taken[cycles - MAX_UNDO_LEVELS + 1]

(* C8: undo() returns false exactly when the undo stack is empty, redo()   *)
(* returns false exactly when the redo stack is empty, and a call that     *)
(* returns false leaves lines, cursor and both stacks unchanged.           *)
C8_FalseIffEmpty ==
    [][/\ op' = "undo" =>
              /\ (ret' = FALSE) <=> (buffer.undo_stack = <<>>)
              /\ ret' = FALSE => buffer' = buffer
       /\ op' = "redo" =>
              /\ (ret' = FALSE) <=> (buffer.redo_stack = <<>>)
              /\ ret' = FALSE => buffer' = buffer]_vars

C8_Witness ==
    /\ op = "undo"
    /\ ret = FALSE
    /\ undos >= 2
    /\ buffer.redo_stack # <<>>

EndsInLineBreak(s) == s # <<>> /\ s[Len(s)] = "\n"

HasCRLF(s) == \E i \in 1..(Len(s) - 1) : s[i] = "\r" /\ s[i + 1] = "\n"

(* C9, as stated: from_string(s).to_string() == s for every s that does    *)
(* not end in a line break.                                                *)
C9_RoundTrip ==
    (op = "to_string" /\ ~EndsInLineBreak(content)) => ret = content

(* C9, amended: from_string(s).to_string() == s for every s that does not  *)
(* end in a line break and holds no "\r\n" pair.                           *)
C9_RoundTripWithoutCRLF ==
    (op = "to_string" /\ ~EndsInLineBreak(content) /\ ~HasCRLF(content)) => ret = content

C9_Witness ==
    /\ op = "to_string"
    /\ ~EndsInLineBreak(content)
    /\ ~HasCRLF(content)
    /\ \E i \in 1..(Len(content) - 1) : content[i] = "\n" /\ content[i + 1] = "\n"
    /\ Len(buffer.lines) = 3
    /\ ret = content

(* C10: the document has at least one line in every state reachable from   *)
(* new() or from_string(s) by edits, line and range deletions, visual      *)
(* selection deletions, pastes, undo and redo.                             *)
C10_AtLeastOneLine == Len(buffer.lines) >= 1

(* A document that held MaxLines lines when its snapshot was taken and has *)
(* been deleted down to its last, empty line.                              *)
C10_Witness ==
    /\ buffer.lines = <<<<>>>>
    /\ buffer.undo_stack # <<>>
    /\ Len(buffer.undo_stack[1].lines) = MaxLines
    /\ \E i \in 1..MaxLines : buffer.undo_stack[1].lines[i] # <<>>

(* The Normal-mode key event of a step, and whether the step handles one. *)
NormalKey == op' = "handle_key" /\ args'[2] = "Normal"

(* The action of a single-key leader binding, "" when c has none. *)
LeaderBinding(c) ==
    CASE c = "s" -> "LeaderProcess"
      [] c = "l" -> "LeaderList"
      [] c = "q" -> "Quit"
      [] c = "d" -> "ToggleCheckbox"
      [] c = "h" -> "ToggleHints"
      [] OTHER -> ""

(* The transitions of a pending leader sequence on the key of the step. *)
PendingLeaderStep ==
    LET c == args'[1].code
        l == vim.leader_state
        l2 == vim'.leader_state
    IN
    /\ l.tag = "AwaitingFirst" =>
          IF LeaderBinding(c) # ""
          THEN ret' = Act(LeaderBinding(c), "") /\ l2.tag = "Inactive"
          ELSE IF c \in {"n", "m"}
          THEN ret' = Act("None", "") /\ l2 = [tag |-> "AwaitingSecond", first |-> c]
          ELSE ret' = Act("None", "") /\ l2.tag = "Inactive"
    /\ l.tag = "AwaitingSecond" =>
          /\ l2.tag = "Inactive"
          /\ ret' = IF l.first = "n" /\ c = "n" THEN Act("LeaderNew", "")
                    ELSE IF l.first = "m" /\ c = "c" THEN Act("InsertCheckbox", "")
                    ELSE Act("None", "")
    /\ (l.tag = "Inactive" /\ c # " ") => l2.tag = "Inactive"

LeaderAccepted == vim'.leader_state.tag = "AwaitingFirst" /\ ret' = Act("LeaderKey", "")

(* C11, as stated: in Normal mode the leader key moves Inactive to         *)
(* AwaitingFirst and returns LeaderKey; in AwaitingFirst a single-key      *)
(* leader binding returns its action and resets to Inactive, 'n' and 'm'   *)
(* go to AwaitingSecond with no action, any other key returns None and     *)
(* resets; in AwaitingSecond 'n' after 'n' gives LeaderNew, 'c' after 'm'  *)
(* gives InsertCheckbox, every other key gives None, and the state resets  *)
(* to Inactive either way; a cancelling key never triggers its ordinary    *)
(* Normal binding.                                                         *)
C11_LeaderTransitions ==
    [][NormalKey =>
          /\ PendingLeaderStep
          /\ (vim.leader_state.tag = "Inactive" /\ args'[1].code = " ")
                => LeaderAccepted]_vars

(* C11, amended: the same transitions, the leader key being accepted from  *)
(* Inactive only when no operator is pending; with an operator pending the *)
(* leader key is consumed by the operator, returns None and leaves the     *)
(* leader state Inactive.                                                  *)
C11_LeaderTransitionsNoOperator ==
    [][NormalKey =>
          /\ PendingLeaderStep
          /\ (vim.leader_state.tag = "Inactive" /\ args'[1].code = " ") =>
                IF vim.operator_state = "None"
                THEN LeaderAccepted
                ELSE vim'.leader_state.tag = "Inactive" /\ ret' = Act("None", "")]_vars

C11_Witness ==
    /\ op = "handle_key"
    /\ args[2] = "Normal"
    /\ args[1].code = "x"
    /\ leader_keys = 2
    /\ ret = Act("None", "")
    /\ vim.leader_state.tag = "Inactive"

(* C12: a leader sequence is at most two characters long: once the leader *)
(* key has been accepted, the leader state is Inactive again after at most *)
(* two further Normal-mode key events, whatever the keys are.              *)
C12_LeaderBounded ==
    /\ leader_keys <= 2
    /\ leader_keys = 2 => vim.leader_state.tag = "Inactive"
    /\ vim.leader_state.tag = "AwaitingSecond" => leader_keys = 1
    /\ vim.leader_state.tag = "AwaitingFirst" => leader_keys = 0

C12_Witness ==
    /\ op = "handle_key"
    /\ args[2] = "Normal"
    /\ leader_keys = 2
    /\ ret = Act("InsertCheckbox", "")
    /\ vim.leader_state.tag = "Inactive"

(* The motion a key stands for after an operator, "" when it is no motion. *)
MotionKey(c) ==
    CASE c \in {"d", "y"} -> "Line"
      [] c = "w" -> "WordForward"
      [] c = "b" -> "WordBackward"
      [] c = "0" -> "LineStart"
      [] c = "$" -> "LineEnd"
      [] c = "g" -> "FileStart"
      [] c = "G" -> "FileEnd"
      [] OTHER -> ""

(* C13: operator-pending lasts exactly one key: in Normal mode with no     *)
(* pending sub-state the delete or yank operator key sets operator_state   *)
(* and returns None; the next Normal-mode key is either a motion key,      *)
(* returning Delete(motion) or Yank(motion), or any other key, returning   *)
(* None; operator_state is None afterwards in both cases.                  *)
C13_OperatorOneKey ==
    [][(NormalKey /\ vim.leader_state.tag = "Inactive") =>
          LET c == args'[1].code IN
          IF vim.operator_state = "None"
          THEN /\ c = "d" => (vim'.operator_state = "Delete" /\ ret' = Act("None", ""))
               /\ c = "y" => (vim'.operator_state = "Yank" /\ ret' = Act("None", ""))
          ELSE /\ vim'.operator_state = "None"
               /\ ret' = IF MotionKey(c) # ""
                         THEN Act(vim.operator_state, MotionKey(c))
                         ELSE Act("None", "")]_vars

C13_Witness ==
    /\ op = "handle_key"
    /\ args[2] = "Normal"
    /\ args[1].code = "g"
    /\ ret = Act("Yank", "FileStart")
    /\ vim.operator_state = "None"

(* The key of the step starts or continues a leader or operator sequence. *)
ContinuesSequence ==
    /\ args'[2] = "Normal"
    /\ \/ vim = vim_new /\ args'[1].code \in {" ", "d", "y"}
       \/ vim.leader_state.tag = "AwaitingFirst" /\ args'[1].code \in {"n", "m"}

(* C14: after every key event passed to handle_key, in any mode, that does *)
(* not continue a pending leader or operator sequence, and after every key *)
(* that completes one, leader_state is Inactive and operator_state is None.*)
C14_PendingReset ==
    [][(op' = "handle_key" /\ ~ContinuesSequence) => vim' = vim_new]_vars

(* The action of the Control-qualified binding of c, "" when c has none. *)
ControlBinding(c) ==
    CASE c = "r" -> "Redo"
      [] c = "l" -> "ReloadBuffer"
      [] c = "g" -> "ExternalEditor"
      [] c \in {"q", "c"} -> "Quit"
      [] OTHER -> ""

(* C15: in Normal mode with no pending state, a Control key that has a     *)
(* Control-qualified binding (Ctrl+R, Ctrl+L, Ctrl+G, Ctrl+Q, Ctrl+C)      *)
(* always yields that binding's action, never the unmodified letter's.     *)
C15_ControlBindingsFirst ==
    [][(/\ NormalKey
        /\ vim = vim_new
        /\ "CONTROL" \in args'[1].modifiers
        /\ ControlBinding(args'[1].code) # "")
          => ret' = Act(ControlBinding(args'[1].code), "")]_vars

EndsWithNewline(s) == s # <<>> /\ s[Len(s)] = "\n"

(* C16: a result reported as linewise (Motion::Line through                *)
(* apply_motion_delete or apply_motion_yank, or a Line-kind visual         *)
(* selection) always ends with a newline, and a result reported as         *)
(* charwise (any other motion, a Character- or Block-kind selection) never *)
(* ends with a newline, for every buffer content and cursor position.      *)
C16_ResultShape ==
    /\ op \in {"apply_motion_delete", "apply_motion_yank"} =>
          /\ ret[2] = (args[1] = "Line")
          /\ EndsWithNewline(ret[1]) = ret[2]
    /\ op \in {"delete_selection", "yank_selection"} =>
          EndsWithNewline(ret) = (args[1] = "Line")

(* C16, the linewise half alone. *)
C16_LinewiseEndsWithNewline ==
    /\ op \in {"apply_motion_delete", "apply_motion_yank"} =>
          /\ ret[2] = (args[1] = "Line")
          /\ ret[2] => EndsWithNewline(ret[1])
    /\ (op \in {"delete_selection", "yank_selection"} /\ args[1] = "Line") =>
          EndsWithNewline(ret)

(* C17: for every half-open range with start <= end inside the document,  *)
(* delete_range returns exactly what extract_range returns on the          *)
(* pre-state; afterwards rows start_row+1..end_row are gone, row start_row *)
(* is the prefix of the first line followed by the suffix of the last      *)
(* line, and every other row is unchanged; extract_range changes nothing.  *)
C17_DeleteRangeRefinesExtract ==
    [][/\ op' = "delete_range" =>
            LET sr == args'[1]
                sc == args'[2]
                er == args'[3]
                ec == args'[4]
                old == buffer.lines
                now == buffer'.lines
            IN  /\ ~buffer'.panicked
                /\ ret' = extract_range(buffer, sr, sc, er, ec).ret
                /\ Len(now) = Len(old) - (er - sr)
                /\ now[sr + 1] = Take(old[sr + 1], sc) \o Drop(old[er + 1], ec)
                /\ \A i \in 1..sr : now[i] = old[i]
                /\ \A i \in (sr + 2)..Len(now) : now[i] = old[i + (er - sr)]
       /\ op' = "extract_range" => (buffer' = buffer /\ ~buffer.panicked)]_vars

C17_Witness ==
    /\ op = "delete_range"
    /\ args = <<0, 1, 2, 0>>
    /\ ret = <<"\n", "\n">>
    /\ buffer.lines = <<<<"a", "a">>>>

(* Where the motion takes the cursor of b. *)
MotionTarget(b, motion) ==
    LET moved == CASE motion = "WordForward" -> move_word_forward(b)
                   [] motion = "WordBackward" -> move_word_backward(b)
                   [] motion = "LineEnd" -> move_to_line_end(b)
                   [] motion = "LineStart" -> move_to_line_start(b)
                   [] motion = "FileEnd" -> move_to_last_line(b)
                   [] motion = "FileStart" -> move_to_first_line(b)
    IN  <<moved.cursor_row, moved.cursor_col>>

(* C18: for every motion and buffer state apply_motion_yank leaves the     *)
(* lines, the cursor and the history unchanged and returns the same        *)
(* (text, linewise) pair as apply_motion_delete from the same state; after *)
(* apply_motion_delete with a non-Line motion the cursor sits at the       *)
(* smaller (row, col) of the original cursor and the motion target.        *)
C18_YankIsDeleteWithoutEffect ==
    [][/\ op' = "apply_motion_yank" =>
            /\ buffer' = buffer
            /\ ret' = apply_motion_delete(buffer, args'[1]).ret
       /\ (op' = "apply_motion_delete" /\ args'[1] # "Line") =>
            LET from == <<buffer.cursor_row, buffer.cursor_col>>
                to == MotionTarget(buffer, args'[1])
            IN  /\ ~buffer'.panicked
                /\ <<buffer'.cursor_row, buffer'.cursor_col>> =
                      IF PosLeq(from[1], from[2], to[1], to[2]) THEN from ELSE to]_vars

C18_Witness ==
    /\ op = "apply_motion_delete"
    /\ args = <<"WordBackward">>
    /\ ret = <<<<"a", " ">>, FALSE>>
    /\ buffer.undo_stack[1].cursor_col = 2
    /\ buffer.cursor_col = 0
    /\ buffer.lines = <<<<"a">>>>

(* The starts of the case-insensitive matches of query in the document. *)
Occurrences(b, query) ==
    {p \in (0..(Len(b.lines) - 1)) \X (0..MaxDoc) :
        MatchAt(to_lowercase(b.lines[p[1] + 1]), to_lowercase(query), p[2])}

(* The place of p in the forward search order from (row, col): the rest    *)
(* of the start row, the following rows wrapping from the last to the      *)
(* first, and at last the start row up to col.                             *)
ForwardRank(b, p, row, col) ==
    IF p[1] = row
    THEN IF p[2] > col THEN 0 ELSE Len(b.lines)
    ELSE (p[1] + Len(b.lines) - row) % Len(b.lines)

(* C19: for a non-empty query find_next(query, row, col) returns the start *)
(* of the first case-insensitive match strictly after (row, col) in        *)
(* row-major order, wrapping from the last line to the first; a match at   *)
(* or before (row, col) on the start row is returned only after every      *)
(* other line has been searched without success; None is returned exactly  *)
(* when the query occurs nowhere in the document.                          *)
C19_FindNextFirstAfter ==
    (op = "find_next" /\ args[1] # <<>>) =>
        LET occ == Occurrences(buffer, args[1])
            rank(p) == ForwardRank(buffer, p, args[2], args[3])
        IN  /\ ~buffer.panicked
            /\ IF occ = {} THEN ret = <<>>
               ELSE /\ ret \in occ
                    /\ \A p \in occ :
                          \/ rank(ret) < rank(p)
                          \/ rank(ret) = rank(p) /\ ret[2] <= p[2]

(* The place of p in the backward search order from (row, col): the start  *)
(* row before col, the preceding rows wrapping from the first to the last, *)
(* and at last the start row from col on.                                  *)
BackwardRank(b, p, row, col) ==
    IF p[1] = row
    THEN IF p[2] < col THEN 0 ELSE Len(b.lines)
    ELSE (row + Len(b.lines) - p[1]) % Len(b.lines)

(* C20: find_prev is the backward mirror of find_next: for a non-empty     *)
(* query it returns the nearest match beginning strictly before            *)
(* (row, col), wrapping from the first line to the last; a match at or     *)
(* after (row, col) on the start row is returned only after every other    *)
(* line has been searched; None is returned exactly when the query occurs  *)
(* nowhere.                                                                *)
C20_FindPrevNearestBefore ==
    (op = "find_prev" /\ args[1] # <<>>) =>
        LET occ == Occurrences(buffer, args[1])
            rank(p) == BackwardRank(buffer, p, args[2], args[3])
        IN  /\ ~buffer.panicked
            /\ IF occ = {} THEN ret = <<>>
               ELSE /\ ret \in occ
                    /\ \A p \in occ :
                          \/ rank(ret) < rank(p)
                          \/ rank(ret) = rank(p) /\ ret[2] >= p[2]

(* The offset of (row, col) in the document text: the rows above it with   *)
(* their line breaks, then col graphemes.                                  *)
FlatOffset(lines, row, col) ==
    IF row = 0 THEN col ELSE Len(join(Take(lines, row))) + 1 + col

(* The document text of b with text spliced in at (row, col). *)
Spliced(b, row, col, text) ==
    LET s == to_string(b)
        at == FlatOffset(b.lines, row, col)
    IN  Take(s, at) \o text \o Drop(s, at)

(* C21: after paste_after_cursor(t) or paste_before_cursor(t), for any     *)
(* text t (single-line, multi-line, or ending in a line break), the        *)
(* document text is the original text with t spliced in just after,        *)
(* respectively just before, the grapheme under the cursor, and the cursor *)
(* lands on the last inserted grapheme.                                    *)
C21_PasteSplices ==
    [][op' \in {"paste_after_cursor", "paste_before_cursor"} =>
          LET t == args'[1]
              row == buffer.cursor_row
              len == Len(buffer.lines[row + 1])
              at == IF op' = "paste_before_cursor" \/ buffer.cursor_col >= len
                    THEN buffer.cursor_col
                    ELSE buffer.cursor_col + 1
          IN  /\ ~buffer'.panicked
              /\ to_string(buffer') = Spliced(buffer, row, at, t)
              /\ t # <<>> =>
                    FlatOffset(buffer'.lines, buffer'.cursor_row, buffer'.cursor_col)
                        = FlatOffset(buffer.lines, row, at) + Len(t) - 1]_vars

(* C22: for every line, every width of at least 1 and every grapheme index *)
(* i from 0 to the grapheme count of the line, the entry that              *)
(* visual_positions_in_range(line, i, i + 1, width) emits for index i has  *)
(* the wrap_row and col that visual_cursor_position([line], 0, i, width)   *)
(* reports.                                                                *)
C22_RangeAgreesWithCursor ==
    (/\ op = "visual_positions_in_range"
     /\ args[4] >= 1
     /\ args[2] <= Len(args[1])
     /\ args[3] = args[2] + 1) =>
        LET at == visual_cursor_position(<<args[1]>>, 0, args[2], args[4])
        IN  /\ Len(ret) = 1
            /\ ret[1][1] = at.wrap_row
            /\ ret[1][2] = at.col

(* C23: for all lines, every width, 0 included, and every cursor with row  *)
(* below the line count and col at most the grapheme count of its line,    *)
(* visual_cursor_position returns rows_before equal to the sum of          *)
(* display_rows_for_line over the preceding lines, line_display_rows equal *)
(* to display_rows_for_line of the cursor's line, and wrap_row below       *)
(* line_display_rows.                                                      *)
C23_CursorPositionRows ==
    (/\ op = "visual_cursor_position"
     /\ args[2] < Len(args[1])
     /\ args[3] <= Len(args[1][args[2] + 1])) =>
        LET lines == args[1]
            RECURSIVE RowsUpTo(_)
            RowsUpTo(n) ==
                IF n = 0 THEN 0
                ELSE RowsUpTo(n - 1) + display_rows_for_line(lines[n], args[4])
        IN  /\ ret.rows_before = RowsUpTo(args[2])
            /\ ret.line_display_rows = display_rows_for_line(lines[args[2] + 1], args[4])
            /\ ret.wrap_row < ret.line_display_rows

(* The rows of greedy left-to-right packing of line into rows of w columns *)
(* (w >= 1): each row takes the longest run of the remaining graphemes     *)
(* that fits; a row after the first takes its first grapheme whole even    *)
(* when it is wider than the row; zero-width graphemes take no room.       *)
GreedyRows(line, w) ==
    LET wide == SelectSeq(line, LAMBDA g : width(g) > 0)
        RECURSIVE Pack(_, _)
        Pack(rest, forced) ==
            LET fit == {k \in forced..Len(rest) :
                           k = forced \/ SumWidth(Take(rest, k)) <= w}
                n == CHOOSE k \in fit : \A j \in fit : j <= k
            IN  IF n = Len(rest) THEN 1 ELSE 1 + Pack(Drop(rest, n), 1)
    IN  Pack(wide, 0)

(* C24: display_rows_for_line(line, width) is the number of rows of greedy *)
(* left-to-right packing in which a grapheme wider than the columns left   *)
(* on the current row starts a new row whole and zero-width graphemes      *)
(* never start a row; the result is at least 1 for every line, the empty   *)
(* one included, and exactly 1 whenever width is 0.                        *)
C24_GreedyPacking ==
    op = "display_rows_for_line" =>
        /\ ret >= 1
        /\ args[2] = 0 => ret = 1
        /\ args[2] >= 1 => ret = GreedyRows(args[1], args[2])

C24_Witness ==
    /\ op = "display_rows_for_line"
    /\ args = << <<"a", "a", "W">>, 3 >>
    /\ ret = 2

(* The display columns the grapheme at index col (from 0) of line covers:  *)
(* one column per narrow grapheme before it and two per full-width one,    *)
(* then its own one or two columns.                                        *)
GlyphCells(line, col) ==
    LET before == Cardinality({i \in 1..col : line[i] # "W"})
                    + 2 * Cardinality({i \in 1..col : line[i] = "W"})
    IN  IF line[col + 1] = "W" THEN {before, before + 1} ELSE {before}

(* C25: block selection never bisects a glyph: for every buffer and every  *)
(* anchor and cursor that each sit on a grapheme, render_data in Block     *)
(* mode returns top_row and bottom_row as the smaller and larger of the    *)
(* two rows, left_col as the smaller display start column of the two       *)
(* endpoint glyphs and right_col as the larger display end column, so      *)
(* left_col <= right_col and every display column of both endpoint glyphs  *)
(* lies inside [left_col, right_col].                                      *)
C25_BlockCoversGlyphs ==
    (/\ op = "render_data"
     /\ args[1] = "Block"
     /\ args[2][2] < Len(buffer.lines[args[2][1] + 1])
     /\ args[3][2] < Len(buffer.lines[args[3][1] + 1])) =>
        LET anchor == GlyphCells(buffer.lines[args[2][1] + 1], args[2][2])
            cursor == GlyphCells(buffer.lines[args[3][1] + 1], args[3][2])
            both == anchor \cup cursor
        IN  /\ ret.kind = "BlockRegion"
            /\ ret.top_row = Min(args[2][1], args[3][1])
            /\ ret.bottom_row = Max(args[2][1], args[3][1])
            /\ ret.left_col \in both /\ \A c \in both : ret.left_col <= c
            /\ ret.right_col \in both /\ \A c \in both : c <= ret.right_col
            /\ ret.left_col <= ret.right_col

C25_Witness ==
    /\ op = "render_data"
    /\ args = <<"Block", <<0, 1>>, <<1, 0>>>>
    /\ buffer.lines = << <<"a", "a">>, <<"W">> >>
    /\ ret.left_col = 0
    /\ ret.right_col = 1

(* The full-width glyphs of line that the display column col cuts in two:  *)
(* their first column is col, their second lies beyond it.                 *)
CutByRightEdge(line, col) ==
    {i \in 0..(Len(line) - 1) :
        line[i + 1] = "W" /\ GlyphCells(line, i) = {col, col + 1}}

(* C26: block delete symmetry: when the right display edge of a block      *)
(* falls in the middle of a double-width glyph on some row, deleting the   *)
(* block removes that glyph in full from that row and includes it in full  *)
(* in the returned text; on every row the text removed is exactly that     *)
(* row's segment of the returned text, the segments being joined from top  *)
(* to bottom by line breaks, and the number of lines is unchanged.         *)
C26_BlockDeleteSymmetry ==
    [][(op' = "delete_selection" /\ args'[1] = "Block") =>
          LET old == buffer.lines
              now == buffer'.lines
              top_row == Min(args'[2][1], args'[3][1])
              bottom_row == Max(args'[2][1], args'[3][1])
              right == render_data("Block", args'[2], buffer, args'[3]).right_col
              segments == str_split(ret')
          IN  /\ ~buffer'.panicked
              /\ Len(now) = Len(old)
              /\ Len(segments) = bottom_row - top_row + 1
              /\ \A r \in 0..(Len(old) - 1) :
                    IF r < top_row \/ r > bottom_row THEN now[r + 1] = old[r + 1]
                    ELSE LET seg == segments[r - top_row + 1]
                         IN  /\ \E k \in 0..Len(now[r + 1]) :
                                   old[r + 1] = Take(now[r + 1], k) \o seg \o Drop(now[r + 1], k)
                             /\ \A i \in CutByRightEdge(old[r + 1], right) :
                                   /\ seg # <<>>
                                   /\ seg[Len(seg)] = "W"
                                   /\ now[r + 1] = Take(old[r + 1], i + 1 - Len(seg))
                                                      \o Drop(old[r + 1], i + 1)]_vars

C26_Witness ==
    /\ op = "delete_selection"
    /\ args = <<"Block", <<0, 0>>, <<1, 0>>>>
    /\ ret = <<"W", "\n", "a", "W">>
    /\ buffer.lines = << <<>>, <<>> >>

(* C27: in the driving loop every logical edit is exactly one undo step:   *)
(* each buffer-modifying Normal-mode action and each bracketed paste is    *)
(* preceded by exactly one save_undo_snapshot, the keys of an Insert-mode  *)
(* session take none, so that the session shares the snapshot taken on     *)
(* entry, and one Undo in Normal mode restores the lines and cursor that   *)
(* held immediately before that edit or session began.                     *)
C27_OneUndoStepPerEdit ==
    [][LET pushed == Append(buffer.undo_stack, BufferSnapshot(buffer))
           kind == args'[1].kind
           begins == \/ op' = "handle_editor_normal"
                        /\ (kind \in EditActions \/ args'[2] # <<>>)
                     \/ op' = "handle_paste"
                        /\ (app.mode = "Insert" \/ args'[1] # <<>>)
       IN  /\ ~buffer'.panicked
           /\ begins => buffer'.undo_stack = pushed
           /\ op' = "handle_insert_action" => buffer'.undo_stack = buffer.undo_stack
           /\ (~begins /\ ~(op' = "handle_editor_normal" /\ kind \in {"Undo", "Redo"})) =>
                 /\ buffer'.undo_stack = buffer.undo_stack
                 /\ (op' # "handle_insert_action" => buffer'.lines = buffer.lines)
           /\ (op' = "handle_editor_normal" /\ kind = "Undo" /\ taken # <<>>) =>
                 BufferSnapshot(buffer') = taken[1]]_vars

(* An Insert session opened with `o` on a list item, one character typed,  *)
(* left with Esc and then undone.                                          *)
C27_Witness ==
    /\ op = "handle_editor_normal"
    /\ args[1].kind = "Undo"
    /\ cycles = 4
    /\ buffer.lines = << <<"-", " ", "a">> >>
    /\ buffer.redo_stack # <<>>
    /\ buffer.redo_stack[1].lines = << <<"-", " ", "a">>, <<"-", " ", "a">> >>

(* C28: only save_undo_snapshot, undo and redo change the undo/redo        *)
(* history: every other TextBuffer operation, apply_motion_delete and      *)
(* apply_motion_yank with their motion simulation on a copy included,      *)
(* leaves the undo stack and the redo stack exactly as they were.          *)
C28_HistoryFrame ==
    [][op' \notin {"save_undo_snapshot", "undo", "redo"} =>
          /\ buffer'.undo_stack = buffer.undo_stack
          /\ buffer'.redo_stack = buffer.redo_stack]_vars

(* dw on a document whose two stacks both hold a snapshot. *)
C28_Witness ==
    /\ op = "apply_motion_delete"
    /\ args = <<"WordForward">>
    /\ ret[1] # <<>>
    /\ buffer.undo_stack # <<>>
    /\ buffer.redo_stack # <<>>

(* C29: insert_newline at cursor (r, c) splits line r into its first c     *)
(* graphemes (row r) and the remaining graphemes (a new row r + 1), leaves *)
(* all other lines untouched and puts the cursor at (r + 1, 0); backspace  *)
(* at column 0 of a row below the first merges that row onto the previous  *)
(* one with the cursor at the join point; so insert_newline followed       *)
(* immediately by backspace restores the original lines and cursor.        *)
C29_NewlineBackspaceRoundTrip ==
    ~buffer.panicked =>
        LET old == buffer.lines
            r == buffer.cursor_row
            c == buffer.cursor_col
            split == insert_newline(buffer)
            back == backspace(split)
            merged == backspace(buffer)
        IN  /\ ~split.panicked
            /\ Len(split.lines) = Len(old) + 1
            /\ Len(split.lines[r + 1]) = c
            /\ split.lines[r + 1] \o split.lines[r + 2] = old[r + 1]
            /\ \A i \in 1..Len(old) :
                  /\ i < r + 1 => split.lines[i] = old[i]
                  /\ i > r + 1 => split.lines[i + 1] = old[i]
            /\ split.cursor_row = r + 1
            /\ split.cursor_col = 0
            /\ (c = 0 /\ r > 0) =>
                  /\ Len(merged.lines) = Len(old) - 1
                  /\ merged.lines[r] = old[r] \o old[r + 1]
                  /\ \A i \in 1..Len(old) :
                        /\ i < r => merged.lines[i] = old[i]
                        /\ i > r + 1 => merged.lines[i - 1] = old[i]
                  /\ merged.cursor_row = r - 1
                  /\ merged.cursor_col = Len(old[r])
            /\ back = buffer

(* C30, as stated: for content s that ends in one or more line breaks,     *)
(* from_string(s).to_string() equals s with exactly one trailing "\n"      *)
(* removed, and from_string(s) holds the same lines as from_string of s    *)
(* without that final "\n".                                                *)
C30_TrailingNewlineLost ==
    (op = "to_string" /\ EndsInLineBreak(content)) =>
        LET shorter == Take(content, Len(content) - 1)
        IN  /\ ret = shorter
            /\ buffer.lines = from_string(shorter).lines

(* C30, amended: for content s that ends in "\n" and holds no "\r\n"      *)
(* pair, from_string(s).to_string() equals s with exactly one trailing     *)
(* "\n" removed; from_string(s) holds the same lines as from_string of s   *)
(* without that final "\n" when s ends in a single "\n", and those lines   *)
(* followed by one empty line when s ends in two or more.                  *)
C30_OneTrailingNewlineLost ==
    (op = "to_string" /\ EndsInLineBreak(content) /\ ~HasCRLF(content)) =>
        LET shorter == Take(content, Len(content) - 1)
        IN  /\ ret = shorter
            /\ buffer.lines = IF EndsInLineBreak(shorter)
                              THEN Append(from_string(shorter).lines, <<>>)
                              ELSE from_string(shorter).lines

(* "a\n\n" is stored as "a\n": two lines, the second empty. *)
C30_Witness ==
    /\ op = "to_string"
    /\ content = <<"a", "\n", "\n">>
    /\ buffer.lines = << <<"a">>, <<>> >>
    /\ ret = <<"a", "\n">>

MoveKinds ==
    {"MoveLeft", "MoveRight", "MoveUp", "MoveDown", "MoveWordForward", "MoveWordBackward",
     "MoveLineStart", "MoveLineEnd", "MoveFileStart", "MoveFileEnd"}

(* C31: every key event that Normal mode, with no leader sequence and no   *)
(* operator pending, resolves to a Move* action resolves to the same Move* *)
(* action in Visual mode.                                                  *)
C31_VisualReusesNavigation ==
    [][(/\ op' = "handle_key"
        /\ args'[2] = "Normal"
        /\ vim.leader_state.tag = "Inactive"
        /\ vim.operator_state = "None"
        /\ ret'.kind \in MoveKinds) =>
          handle_key(vim', args'[1], "Visual").ret = ret']_vars

(* The decimal numeral after ds. *)
RECURSIVE NextNumeral(_)
NextNumeral(ds) ==
    IF ds = <<>> THEN <<"1">>
    ELSE LET last == ds[Len(ds)]
             front == Take(ds, Len(ds) - 1)
             up == [d \in {"0", "1", "2", "3", "4", "5", "6", "7", "8"} |->
                       CASE d = "0" -> "1" [] d = "1" -> "2" [] d = "2" -> "3"
                         [] d = "3" -> "4" [] d = "4" -> "5" [] d = "5" -> "6"
                         [] d = "6" -> "7" [] d = "7" -> "8" [] OTHER -> "9"]
         IN  IF last = "9" THEN Append(NextNumeral(front), "0")
             ELSE Append(front, up[last])

(* The marker that continues a list item with content: <<>> when the line  *)
(* is no such item, else <<indentation, continuation>>.                    *)
ListItem(line) ==
    LET n == CHOOSE k \in 0..Len(line) :
                 /\ \A i \in 1..k : line[i] = " "
                 /\ (k < Len(line) => line[k + 1] # " ")
        rest == Drop(line, n)
        IsDigit(g) == g \in {"0", "1", "2", "3", "4", "5", "6", "7", "8", "9"}
        d == CHOOSE k \in 0..Len(rest) :
                 /\ \A i \in 1..k : IsDigit(rest[i])
                 /\ (k < Len(rest) => ~IsDigit(rest[k + 1]))
    IN  IF /\ Len(rest) > 6
           /\ Take(rest, 3) = <<"-", " ", "[">>
           /\ rest[4] \in {" ", "x", "X"}
           /\ SubSeq(rest, 5, 6) = <<"]", " ">>
        THEN <<Take(line, n), <<"-", " ", "[", " ", "]", " ">> >>
        ELSE IF d > 0 /\ Len(rest) > d + 2 /\ rest[d + 1] \in {".", ")"} /\ rest[d + 2] = " "
        THEN <<Take(line, n), NextNumeral(Take(rest, d)) \o <<rest[d + 1], " ">> >>
        ELSE IF Len(rest) > 2 /\ Take(rest, 2) = <<"-", " ">>
                /\ rest \notin {<<"-", " ", "[", c, "]">> \o t :
                                    c \in {" ", "x", "X"}, t \in {<<>>, <<" ">>}}
        THEN <<Take(line, n), <<"-", " ">> >>
        ELSE <<>>

C33_PendingExclusive ==
    /\ vim.leader_state.tag # "Inactive" => vim.operator_state = "None"
    /\ vim.operator_state # "None" => vim.leader_state.tag = "Inactive"
    /\ ret.kind # "unreachable!"

(* y then w: the pending operator was resolved into an action and neither  *)
(* sub-state is left active.                                               *)
C33_Witness ==
    /\ op = "handle_key"
    /\ args[2] = "Normal"
    /\ ret = Act("Yank", "WordForward")
    /\ vim.operator_state = "None"
    /\ vim.leader_state.tag = "Inactive"

(* C34: for each selection kind and every anchor and cursor inside the     *)
(* buffer, delete_selection returns exactly the string yank_selection      *)
(* returns on the buffer before the deletion, swapping anchor and cursor   *)
(* changes neither result, and yank_selection leaves the buffer's lines    *)
(* and cursor unchanged.                                                   *)
C34_DeleteReturnsYank ==
    [][/\ op' = "delete_selection" =>
             /\ ~buffer'.panicked
             /\ ret' = yank_selection(args'[1], args'[2], buffer, args'[3]).ret
             /\ ret' = delete_selection(args'[1], args'[3], buffer, args'[2]).ret
       /\ op' = "yank_selection" =>
             /\ ~buffer'.panicked
             /\ ret' = yank_selection(args'[1], args'[3], buffer, args'[2]).ret
             /\ BufferSnapshot(buffer') = BufferSnapshot(buffer)]_vars

(* A Character selection made backwards over a line break and deleted. *)
C34_Witness ==
    /\ op = "delete_selection"
    /\ args = <<"Character", <<1, 0>>, <<0, 0>> >>
    /\ ret = <<"a", "\n", "W">>
    /\ buffer.lines = << <<>> >>

(* C35: after every yank or delete (operator and motion in Normal mode, or *)
(* d or y on a Character, Line or Block selection in Visual mode)          *)
(* last_yank_linewise is true exactly when the text placed on the          *)
(* clipboard is a linewise result, so that a following p or P re-inserts   *)
(* whole lines through paste_line_below or paste_line_above for linewise   *)
(* text and splices at the cursor through paste_after_cursor or            *)
(* paste_before_cursor for charwise text.                                  *)
C35_PasteShapeFollowsYank ==
    [][LET Linewise(a) == IF Len(a) = 1 THEN a[1].arg = "Line" ELSE a[2] = "Line"
           snap == save_undo_snapshot(buffer)
       IN  /\ (op' \in {"handle_editor_normal", "handle_visual_action"}
                  /\ ~buffer'.panicked) =>
                 app'.last_yank_linewise = Linewise(args')
           /\ (op' = "paste" /\ ret # <<>>) =>
                 buffer' = CASE Linewise(args) /\ args'[1].kind = "PasteAfter" ->
                                   paste_line_below(snap, ret)
                             [] Linewise(args) /\ args'[1].kind = "PasteBefore" ->
                                   paste_line_above(snap, ret)
                             [] ~Linewise(args) /\ args'[1].kind = "PasteAfter" ->
                                   paste_after_cursor(snap, ret)
                             [] OTHER -> paste_before_cursor(snap, ret)]_vars

(* C36: while the app is in Processing mode the buffer content stays as it *)
(* was when start_processing parsed it: no key, paste or file-watcher      *)
(* event handled before finish_processing changes the lines, so every byte *)
(* range recorded for a block is a range of the buffer text when           *)
(* finish_processing wraps the sent blocks, and the wrapping does not      *)
(* panic.                                                                  *)
C36_BufferFrozenWhileProcessing ==
    [][app.mode = "Processing" =>
          IF op' = "finish_processing" \/ (op' = "key" /\ args'[1].esc)
          THEN /\ \A i \in 1..Len(app.processing_blocks) :
                     app.processing_blocks[i].original_range[2] <= Len(to_string(buffer))
               /\ ~buffer'.panicked
          ELSE buffer'.lines = buffer.lines]_vars

(* C37: an external change never overwrites unsaved edits.  A file event   *)
(* handled while dirty is true leaves the lines and the cursor of the      *)
(* buffer as they were; when it is a Modified event for the note being     *)
(* edited, pending_external_reload is set.  File events are handled in the *)
(* order the watcher sent them, each as a step of its own between the key  *)
(* handlers.                                                               *)
C37_ExternalChangeKeepsUnsavedEdits ==
    [][op' = "handle_file_event" =>
          /\ args'[1] = Head(taken)
          /\ taken' = Tail(taken)
          /\ app.dirty =>
                /\ BufferSnapshot(buffer') = BufferSnapshot(buffer)
                /\ (args'[1].kind = "Modified" /\ app.current_note = <<args'[1].id>>) =>
                      app'.pending_external_reload = <<args'[1].id>>]_vars

(* C38: processing terminates and handles each block at most once.         *)
(* start_processing enters Processing mode with n >= 1 pending blocks and  *)
(* processing_index 0; each tick dispatches the block at processing_index  *)
(* and adds one to the index, which never exceeds n, so that n + 1 ticks   *)
(* end the processing; the tick after the last block calls                 *)
(* finish_processing; finish_processing, which Esc reaches at once, leaves *)
(* the mode Normal, processing_blocks empty and processing_index 0; no     *)
(* other key is acted on while Processing; and as long as the mode is      *)
(* Processing the loop is alive to take the next tick.                     *)
C38_ProcessingTerminates ==
    [][LET n == Len(app.processing_blocks)
           i == app.processing_index
           Finished == /\ app'.mode = "Normal"
                       /\ app'.processing_blocks = <<>>
                       /\ app'.processing_index = 0
       IN  /\ (app.mode # "Processing" /\ app'.mode = "Processing") =>
                 /\ app'.processing_index = 0
                 /\ app'.processing_blocks # <<>>
                 /\ \A k \in 1..Len(app'.processing_blocks) :
                        app'.processing_blocks[k].status = "Pending"
           /\ app.mode = "Processing" =>
                 /\ i <= n
                 /\ CASE op' = "process_next_block" ->
                            /\ i < n
                            /\ app'.mode = "Processing"
                            /\ app'.processing_index = i + 1
                            /\ \A k \in 1..n :
                                   k # i + 1 => app'.processing_blocks[k]
                                                  = app.processing_blocks[k]
                      [] op' = "finish_processing" -> i = n /\ Finished
                      [] op' = "key" /\ args'[1].esc -> Finished
                      [] op' = "key" -> app' = app /\ buffer' = buffer
                      [] OTHER -> /\ app'.mode = "Processing"
                                  /\ app'.processing_blocks = app.processing_blocks
                                  /\ app'.processing_index = i
           /\ app'.mode = "Processing" => ~buffer'.panicked]_vars

(* C39: indent_lines(a, b, w) followed by dedent_lines(a, b, w), the       *)
(* buffer operations behind indent_selection and dedent_selection of every *)
(* selection kind, restores every line and the cursor column to their      *)
(* values before the indent, for every row range, tab width and cursor     *)
(* position.                                                               *)
C39_IndentDedentRoundTrip ==
    [][op' = "indent_lines" =>
          LET d == dedent_lines(buffer', args'[1], args'[2], args'[3])
          IN  /\ ~d.panicked
              /\ d.lines = buffer.lines
              /\ d.cursor_col = buffer.cursor_col]_vars

(* C40: split_line_by_width(line, width) yields exactly                    *)
(* display_rows_for_line(line, width) display lines, and grapheme i of the *)
(* line lies on the display line and at the display column that            *)
(* visual_cursor_position reports as wrap_row and col for cursor_col = i,  *)
(* for every line and every width.                                         *)
C40_SplitterAgreesWithWrapCalc ==
    op = "split_line_by_width" =>
        LET line == args[1]
            w == args[2]
            RECURSIVE Before(_, _)
            Before(k, n) == IF k = 0 THEN n ELSE Before(k - 1, n + Len(ret[k]))
            RowOf(i) == CHOOSE k \in 1..Len(ret) :
                            /\ Before(k - 1, 0) <= i
                            /\ i < Before(k, 0)
            ColOf(i) == SumWidth(SubSeq(ret[RowOf(i)], 1, i - Before(RowOf(i) - 1, 0)))
        IN  /\ Len(ret) = display_rows_for_line(line, w)
            /\ \A i \in 0..(Len(line) - 1) :
                   LET at == visual_cursor_position(<<line>>, 0, i, w)
                   IN  /\ RowOf(i) - 1 = at.wrap_row
                       /\ ColOf(i) = at.col

====
